---- MODULE Spec2Model ----
(***************************************************************************)
(* Kiroku bot: the CodeOps task store and workflow (codeops.py), the chat  *)
(* dispatcher (bot.py) and the outbox send pass (outreach_ops.py).         *)
(*                                                                         *)
(* Texts are sequences of one-character strings.  Coroutines are the       *)
(* processes of Procs; one action is one synchronous segment of a          *)
(* coroutine, from one suspension point of the event loop to the next.     *)
(***************************************************************************)
EXTENDS Integers, Sequences, FiniteSets, TLC

(***************************************************************************)
(* Bounds of the model.                                                    *)
(***************************************************************************)
\* API calls the environment issues in SpecOps.
MaxCalls == 3
\* Task ids handed out in SpecFlow.
MaxIds == 1
\* Chat messages the gateway delivers in the dispatcher specifications.
MaxMsgs == 1
\* Rows in an outbox file, besides the five-row example.
MaxRows == 2
\* send_outbox passes on one outbox.
MaxPasses == 2
\* The largest number of leads asked for.
MaxCount == 2
\* The longest leads file.
MaxLeads == 2

(***************************************************************************)
(* Program constants.                                                      *)
(***************************************************************************)
TitleMax == 120
TitleCut == 100
ErrorMax == 2000
RowErrorMax == 500

TASK_STATUS_NEW == "new"
TASK_STATUS_PLANNED == "planned"
TASK_STATUS_PATCHED == "patched"
TASK_STATUS_APPLIED == "applied"
TASK_STATUS_COMMITTED == "committed"
TASK_STATUS_PUBLISHED == "published"
TASK_STATUS_FAILED == "failed"

ProcOrder == <<"p1", "p2">>
Procs == {ProcOrder[i] : i \in 1..Len(ProcOrder)}
Rank(p) == CHOOSE i \in 1..Len(ProcOrder) : ProcOrder[i] = p
None == "none"

(***************************************************************************)
(* Text helpers: str.strip, slicing, substring test, placeholder match.    *)
(***************************************************************************)
MinOf(S) == CHOOSE x \in S : \A y \in S : x <= y
MaxOf(S) == CHOOSE x \in S : \A y \in S : x >= y

Rep(c, n) == [i \in 1..n |-> c]

IsSpace(c) == c \in {" ", "\n", "\t"}

Strip(s) ==
    LET keep == {i \in 1..Len(s) : ~IsSpace(s[i])}
        first == CHOOSE i \in keep : \A j \in 1..(i - 1) : IsSpace(s[j])
        final == CHOOSE i \in keep : \A j \in (i + 1)..Len(s) : IsSpace(s[j])
    IN  IF s = <<>> \/ (~IsSpace(s[1]) /\ ~IsSpace(s[Len(s)])) THEN s
        ELSE IF keep = {} THEN <<>> ELSE SubSeq(s, first, final)

Prefix(s, n) == SubSeq(s, 1, IF Len(s) < n THEN Len(s) ELSE n)

Suffix(s, n) == SubSeq(s, n, Len(s))

\* The positions at which pat occurs in s.
Occurrences(pat, s) ==
    {i \in 1..(Len(s) - Len(pat) + 1) : SubSeq(s, i, i + Len(pat) - 1) = pat}

Contains(pat, s) == Occurrences(pat, s) # {}

\* re.fullmatch of an opening angle bracket, one or more characters other
\* than a closing one, and a closing one, on s.strip().
IsPlaceholder(s) ==
    LET t == Strip(s)
    IN  /\ Len(t) >= 3
        /\ t[1] = "<"
        /\ t[Len(t)] = ">"
        /\ \A i \in 2..(Len(t) - 1) : t[i] # ">"

InstructionsLiteral ==
    <<"<", "i", "n", "s", "t", "r", "u", "c", "t", "i", "o", "n", "s", ">">>


(***************************************************************************)
(* The repository the bot works on, as git sees it: the checked-out        *)
(* branch, the local branches with the task changes committed on each, the *)
(* task changes staged in the index, and the branches pushed.              *)
(***************************************************************************)
BaseBranch == <<"main">>

\* The branch codex/task-{task_id}.
BranchName(task_id) == <<"codex/task-", task_id>>

TrackedFiles == {"bot.py", "codeops.py", "b.py"}

DefaultFiles == <<"bot.py", "codeops.py", "README.md", "website/kiroku_outreach_automation.gs">>

MaxContextFiles == 6

InitRepo ==
    [head |-> BaseBranch,
     branches |-> (BaseBranch :> {}),
     staged |-> {},
     pushed |-> {}]

\* A status check that never finds a change.
RepoNeverDirty(rp) == FALSE

\* git status --porcelain prints something.
RepoDirty(rp) == rp.staged # {}

(***************************************************************************)
(* The task store file {next_id, tasks[]} and CodeTask records.            *)
(***************************************************************************)
InitStore == [next_id |-> 1, tasks |-> <<>>]

NewTask(task_id, title, instructions, requested_by_id) ==
    [task_id |-> task_id,
     title |-> Prefix(Strip(title), TitleMax),
     instructions |-> Strip(instructions),
     requested_by_id |-> requested_by_id,
     status |-> TASK_STATUS_NEW,
     branch |-> BranchName(task_id),
     plan |-> "",
     patch |-> <<>>,
     files |-> <<>>,
     commit_sha |-> <<>>,
     compare_url |-> <<>>,
     last_error |-> <<>>]

\* Indexes of the stored tasks with this id.
TaskIndexes(st, task_id) ==
    {i \in 1..Len(st.tasks) : st.tasks[i].task_id = task_id}

TaskExists(st, task_id) == TaskIndexes(st, task_id) # {}

\* CodeOps._get_task_unlocked: the first stored task with the id.
GetTaskUnlocked(st, task_id) == st.tasks[MinOf(TaskIndexes(st, task_id))]

\* An _upsert_task that appends whatever is stored.
UpsertTaskAppends(st, task) == [st EXCEPT !.tasks = Append(@, task)]

\* CodeOps._upsert_task: replace the first task with the id, else append.
UpsertTask(st, task) ==
    IF TaskExists(st, task.task_id)
    THEN [st EXCEPT !.tasks[MinOf(TaskIndexes(st, task.task_id))] = task]
    ELSE [st EXCEPT !.tasks = Append(@, task)]

\* A _next_id that writes nothing back.
NextIdNotSaved(st) == st

\* CodeOps._next_id: the store after the id is consumed; the id is st.next_id.
NextIdStore(st) == [st EXCEPT !.next_id = @ + 1]

\* CodeOps._infer_files_from_text, for texts whose path tokens are set off by
\* spaces: the tracked paths named in the text, first occurrence first.
PathLiteral == <<"b", ".", "p", "y">>

InferFilesFromText(text) ==
    IF Contains(PathLiteral, text) /\ "b.py" \in TrackedFiles
    THEN <<"b.py">> ELSE <<>>

SelectTracked(files) == SelectSeq(files, LAMBDA f : f \in TrackedFiles)

\* CodeOps._infer_files_for_task, given that git ls-files succeeds.
InferFilesForTask(task) ==
    IF task.files # <<>> THEN task.files
    ELSE LET found == InferFilesFromText(task.instructions)
         IN  IF found # <<>> THEN Prefix(found, MaxContextFiles)
             ELSE Prefix(SelectTracked(DefaultFiles), MaxContextFiles)

\* CodeOps._is_placeholder_task
IsPlaceholderTask(task) ==
    \/ IsPlaceholder(task.title)
    \/ IsPlaceholder(task.instructions)
    \/ Contains(InstructionsLiteral, task.instructions)

(***************************************************************************)
(* Results of an operation body: the store and repository it leaves, and   *)
(* how it ended: "ok" (returns task), "err" (CodeOpsError with message     *)
(* err), "exc" (any other exception) or "await" (suspended on the model    *)
(* request, lock held).                                                    *)
(***************************************************************************)
Msg(tag) == <<tag>>

Res(st, rp, kind, err, task) ==
    [store |-> st, repo |-> rp, kind |-> kind, err |-> err, task |-> task]

NoTask == [task_id |-> 0]

NotFound(st, rp) == Res(st, rp, "err", Msg("Task not found."), NoTask)

CommandFailed(st, rp) == Res(st, rp, "err", Msg("Command failed"), NoTask)


(***************************************************************************)
(* Model output as a sequence of lines, and the diff helpers of CodeOps.   *)
(***************************************************************************)
\* The lines a model answer is made of; fence_diff and fence stand for a
\* code fence (three backquotes), with and without the diff tag.
Line ==
    [prose |-> "Sure, here's the fix:",
     fence_diff |-> "[fence]diff",
     fence |-> "[fence]",
     diff_git |-> "diff --git a/x b/x",
     index |-> "index 000000..1111111 100644",
     minus |-> "--- a/x",
     plus |-> "+++ b/x",
     add |-> "+x",
     blank |-> ""]

\* str.strip on a text of whole lines: drop the blank lines at both ends.
StripLines(ls) ==
    LET keep == {i \in 1..Len(ls) : ls[i] # Line.blank}
    IN  IF keep = {} THEN <<>> ELSE SubSeq(ls, MinOf(keep), MaxOf(keep))

\* CodeOps._looks_like_unified_diff
LooksLikeUnifiedDiff(text) ==
    LET c == StripLines(text)
    IN  /\ c # <<>>
        /\ \/ \E i \in 1..Len(c) : c[i] = Line.diff_git
           \/ /\ \E i \in 1..Len(c) : c[i] = Line.minus
              /\ \E i \in 1..Len(c) : c[i] = Line.plus

\* re.findall of a fence, an optional diff tag, a newline, the shortest text,
\* a fence.
RECURSIVE FencedBlocks(_)
FencedBlocks(ls) ==
    LET opens == {i \in 1..Len(ls) : ls[i] \in {Line.fence, Line.fence_diff}}
    IN  IF opens = {} THEN <<>>
        ELSE LET i == MinOf(opens)
                 closes == {j \in (i + 1)..Len(ls) : ls[j] \in {Line.fence, Line.fence_diff}}
             IN  IF closes = {} THEN <<>>
                 ELSE LET j == MinOf(closes)
                      IN  <<SubSeq(ls, i + 1, j - 1)>> \o FencedBlocks(Suffix(ls, j + 1))

\* CodeOps._extract_unified_diff
ExtractUnifiedDiff(raw) ==
    LET text == StripLines(raw)
        blocks == FencedBlocks(text)
        good == {k \in 1..Len(blocks) : LooksLikeUnifiedDiff(StripLines(blocks[k]))}
        gits == {i \in 1..Len(text) : text[i] = Line.diff_git}
        minus == {i \in 1..Len(text) : text[i] = Line.minus}
    IN  IF text = <<>> THEN <<>>
        ELSE IF good # {} THEN StripLines(blocks[MinOf(good)])
        ELSE IF gits # {} THEN StripLines(Suffix(text, MinOf(gits)))
        ELSE IF minus # {} THEN StripLines(Suffix(text, MinOf(minus)))
        ELSE text

\* CodeOps._sanitize_diff_text
SanitizeDiffText(diff_text) ==
    LET text == StripLines(diff_text)
    IN  StripLines(SelectSeq(text, LAMBDA ln : ln # Line.index))

(***************************************************************************)
(* Operation bodies of CodeOps, from lock acquisition to the first         *)
(* suspension or to the end.  ext is the outcome of the external commands  *)
(* the body runs.                                                          *)
(***************************************************************************)
\* CodeOps.create_task
CreateTaskBody(st, rp, title, instructions, by, ext) ==
    LET task_id == st.next_id
        st1 == NextIdStore(st)
        task == [NewTask(task_id, title, instructions, by)
                     EXCEPT !.files = InferFilesFromText(Strip(instructions))]
    IN  IF ext = "fail_ls_files" THEN CommandFailed(st1, rp)
        ELSE Res(UpsertTask(st1, task), rp, "ok", <<>>, task)

\* CodeOps.get_task
GetTaskBody(st, rp, task_id) ==
    IF TaskExists(st, task_id)
    THEN Res(st, rp, "ok", <<>>, GetTaskUnlocked(st, task_id))
    ELSE NotFound(st, rp)

\* sorted by task_id, reverse=True
RECURSIVE SortByIdDesc(_)
SortByIdDesc(ts) ==
    IF ts = <<>> THEN <<>>
    ELSE LET top == MaxOf({ts[i].task_id : i \in 1..Len(ts)})
             first == MinOf({i \in 1..Len(ts) : ts[i].task_id = top})
         IN  <<ts[first]>> \o
             SortByIdDesc(SubSeq(ts, 1, first - 1) \o Suffix(ts, first + 1))

\* CodeOps.list_tasks: the value returned.
ListTasks(st, include_closed) ==
    LET sorted == SortByIdDesc(st.tasks)
    IN  IF include_closed THEN sorted
        ELSE SelectSeq(sorted, LAMBDA t : t.status # "closed")

\* A successful step that leaves the status as it was.
AdvanceKeepsStatus(st, rp, task, status) ==
    LET done == [task EXCEPT !.last_error = <<>>]
    IN  Res(UpsertTask(st, done), rp, "ok", <<>>, done)

\* A step that sets the status and leaves last_error as it is.
AdvanceKeepsError(st, rp, task, status) ==
    LET done == [task EXCEPT !.status = status]
    IN  Res(UpsertTask(st, done), rp, "ok", <<>>, done)

\* The status, time stamp and error reset that ends every successful step.
Advance(st, rp, task, status) ==
    LET done == [task EXCEPT !.status = status, !.last_error = <<>>]
    IN  Res(UpsertTask(st, done), rp, "ok", <<>>, done)

\* CodeOps.plan_task up to the model request (or to the end without one).
PlanTaskBody(st, rp, task_id, llm, ext) ==
    IF ~TaskExists(st, task_id) THEN NotFound(st, rp)
    ELSE LET task == GetTaskUnlocked(st, task_id)
             withFiles == [task EXCEPT !.files = InferFilesForTask(task)]
         IN  IF IsPlaceholderTask(task)
             THEN Res(st, rp, "err", Msg("Task looks like placeholders"), NoTask)
             ELSE IF task.files = <<>> /\ ext = "fail_ls_files"
             THEN CommandFailed(st, rp)
             ELSE IF llm THEN Res(st, rp, "await", <<>>, withFiles)
             ELSE Advance(st, rp, [withFiles EXCEPT !.plan = "fallback"],
                          TASK_STATUS_PLANNED)

\* What a model request comes back with: text (lines), an error status that
\* CodeOps turns into a CodeOpsError, or a transport exception.
Answer(kind, lines) == [kind |-> kind, lines |-> lines]

\* CodeOps.plan_task from the answer of the model on.
PlanTaskResume(st, rp, task, answer) ==
    CASE answer.kind = "http_error" ->
            Res(st, rp, "err", Msg("Model request failed"), NoTask)
      [] answer.kind = "exception" ->
            Res(st, rp, "exc", Msg("TimeoutError"), NoTask)
      [] OTHER ->
            Advance(st, rp,
                    [task EXCEPT !.plan = IF answer.lines = <<>> THEN "" ELSE "llm"],
                    TASK_STATUS_PLANNED)

\* A patch_task that saves the fallback plan before it looks for a model.
PatchTaskBodySavesPlan(st, rp, task_id, llm, ext) ==
    IF ~TaskExists(st, task_id) THEN NotFound(st, rp)
    ELSE LET task == GetTaskUnlocked(st, task_id)
             planned == IF task.plan = ""
                        THEN [task EXCEPT !.plan = "fallback",
                                          !.files = InferFilesForTask(task)]
                        ELSE task
         IN  IF IsPlaceholderTask(task)
             THEN Res(st, rp, "err", Msg("Task looks like placeholders"), NoTask)
             ELSE IF task.plan = "" /\ task.files = <<>> /\ ext = "fail_ls_files"
             THEN CommandFailed(st, rp)
             ELSE IF ~llm
             THEN Res(UpsertTask(st, planned), rp, "err",
                      Msg("No LLM provider configured."), NoTask)
             ELSE IF planned.files = <<>> /\ ext = "fail_ls_files"
             THEN CommandFailed(st, rp)
             ELSE Res(st, rp, "await", <<>>, planned)

\* CodeOps.patch_task up to the first model request.
PatchTaskBody(st, rp, task_id, llm, ext) ==
    IF ~TaskExists(st, task_id) THEN NotFound(st, rp)
    ELSE LET task == GetTaskUnlocked(st, task_id)
             planned == IF task.plan = ""
                        THEN [task EXCEPT !.plan = "fallback",
                                          !.files = InferFilesForTask(task)]
                        ELSE task
         IN  IF IsPlaceholderTask(task)
             THEN Res(st, rp, "err", Msg("Task looks like placeholders"), NoTask)
             ELSE IF task.plan = "" /\ task.files = <<>> /\ ext = "fail_ls_files"
             THEN CommandFailed(st, rp)
             ELSE IF ~llm
             THEN Res(st, rp, "err", Msg("No LLM provider configured."), NoTask)
             ELSE IF planned.files = <<>> /\ ext = "fail_ls_files"
             THEN CommandFailed(st, rp)
             ELSE Res(st, rp, "await", <<>>, planned)

\* A patch_task that gives up after the first answer.
PatchTaskResumeNoRetry(st, rp, task, strict, answer) ==
    LET candidate == SanitizeDiffText(ExtractUnifiedDiff(answer.lines))
    IN  CASE answer.kind = "http_error" ->
                Res(st, rp, "err", Msg("Model request failed"), NoTask)
          [] answer.kind = "exception" ->
                Res(st, rp, "exc", Msg("TimeoutError"), NoTask)
          [] OTHER ->
                IF LooksLikeUnifiedDiff(candidate)
                THEN Advance(st, rp, [task EXCEPT !.patch = candidate],
                             TASK_STATUS_PATCHED)
                ELSE Res(st, rp, "err",
                         Msg("Model output did not contain a valid unified diff."),
                         NoTask)

\* CodeOps.patch_task from an answer of the model on; strict tells the second
\* request from the first.
PatchTaskResume(st, rp, task, strict, answer) ==
    LET candidate == SanitizeDiffText(ExtractUnifiedDiff(answer.lines))
    IN  CASE answer.kind = "http_error" ->
                Res(st, rp, "err", Msg("Model request failed"), NoTask)
          [] answer.kind = "exception" ->
                Res(st, rp, "exc", Msg("TimeoutError"), NoTask)
          [] OTHER ->
                IF LooksLikeUnifiedDiff(candidate)
                THEN Advance(st, rp, [task EXCEPT !.patch = candidate],
                             TASK_STATUS_PATCHED)
                ELSE IF ~strict THEN Res(st, rp, "await", <<>>, task)
                ELSE Res(st, rp, "err",
                         Msg("Model output did not contain a valid unified diff."),
                         NoTask)

\* CodeOps._prepare_branch, _apply_patch_text and the verification command,
\* as far as ext lets them get.
ApplyRepo(rp, task, ext) ==
    LET onBase == [rp EXCEPT !.head = BaseBranch]
        onBranch == [onBase EXCEPT
                        !.head = task.branch,
                        !.branches = (task.branch :> rp.branches[BaseBranch]) @@ @]
        applied == [onBranch EXCEPT !.staged = @ \cup {task.task_id}]
    IN  CASE ext \in {"fail_fetch", "fail_checkout"} -> rp
          [] ext \in {"fail_pull", "fail_branch"} -> onBase
          [] ext = "fail_apply" -> onBranch
          [] OTHER -> applied

\* An apply_task that marks the task failed itself when a command fails.
ApplyTaskBodyMarksFailed(st, rp, task_id, verify, ext) ==
    IF ~TaskExists(st, task_id) THEN NotFound(st, rp)
    ELSE LET task == GetTaskUnlocked(st, task_id)
             failed == \/ ext \in {"fail_fetch", "fail_checkout", "fail_pull",
                                   "fail_branch", "fail_apply"}
                       \/ verify /\ ext = "fail_verify"
         IN  IF StripLines(task.patch) = <<>>
             THEN Res(st, rp, "err", Msg("Task has no patch."), NoTask)
             ELSE IF failed
             THEN CommandFailed(UpsertTask(st, [task EXCEPT !.status = TASK_STATUS_FAILED]),
                                ApplyRepo(rp, task, ext))
             ELSE Advance(st, ApplyRepo(rp, task, ext), task, TASK_STATUS_APPLIED)

\* An apply_task that does not look at how the verification command exited.
ApplyTaskBodyUnverified(st, rp, task_id, verify, ext) ==
    IF ~TaskExists(st, task_id) THEN NotFound(st, rp)
    ELSE LET task == GetTaskUnlocked(st, task_id)
             failed == ext \in {"fail_fetch", "fail_checkout", "fail_pull",
                                "fail_branch", "fail_apply"}
         IN  IF StripLines(task.patch) = <<>>
             THEN Res(st, rp, "err", Msg("Task has no patch."), NoTask)
             ELSE IF failed THEN CommandFailed(st, ApplyRepo(rp, task, ext))
             ELSE Advance(st, ApplyRepo(rp, task, ext), task, TASK_STATUS_APPLIED)

\* CodeOps.apply_task
ApplyTaskBody(st, rp, task_id, verify, ext) ==
    IF ~TaskExists(st, task_id) THEN NotFound(st, rp)
    ELSE LET task == GetTaskUnlocked(st, task_id)
             failed == \/ ext \in {"fail_fetch", "fail_checkout", "fail_pull",
                                   "fail_branch", "fail_apply"}
                       \/ verify /\ ext = "fail_verify"
         IN  IF StripLines(task.patch) = <<>>
             THEN Res(st, rp, "err", Msg("Task has no patch."), NoTask)
             ELSE IF failed THEN CommandFailed(st, ApplyRepo(rp, task, ext))
             ELSE Advance(st, ApplyRepo(rp, task, ext), task, TASK_STATUS_APPLIED)

\* git checkout of a task branch: it must exist.
CheckoutFails(rp, branch, ext) ==
    branch \notin DOMAIN rp.branches \/ ext = "fail_checkout"

\* git rev-parse HEAD after the commit: the commit is known by what is in it.
CommitSha(branch, changes) == <<"sha", branch, changes>>

\* A commit_task that commits whether or not anything is staged.
CommitTaskBodyEmpty(st, rp, task_id, ext) ==
    IF ~TaskExists(st, task_id) THEN NotFound(st, rp)
    ELSE LET task == GetTaskUnlocked(st, task_id)
             onBranch == [rp EXCEPT !.head = task.branch]
             changes == rp.branches[task.branch] \cup rp.staged
             committed == [onBranch EXCEPT !.branches[task.branch] = changes,
                                           !.staged = {}]
         IN  IF CheckoutFails(rp, task.branch, ext) THEN CommandFailed(st, rp)
             ELSE IF ext = "fail_add" THEN CommandFailed(st, onBranch)
             ELSE IF ext = "fail_commit" THEN CommandFailed(st, onBranch)
             ELSE IF ext = "fail_rev_parse" THEN CommandFailed(st, committed)
             ELSE Advance(st, committed,
                          [task EXCEPT !.commit_sha = CommitSha(task.branch, changes)],
                          TASK_STATUS_COMMITTED)

\* CodeOps.commit_task
CommitTaskBody(st, rp, task_id, ext) ==
    IF ~TaskExists(st, task_id) THEN NotFound(st, rp)
    ELSE LET task == GetTaskUnlocked(st, task_id)
             onBranch == [rp EXCEPT !.head = task.branch]
             changes == rp.branches[task.branch] \cup rp.staged
             committed == [onBranch EXCEPT !.branches[task.branch] = changes,
                                           !.staged = {}]
         IN  IF CheckoutFails(rp, task.branch, ext) THEN CommandFailed(st, rp)
             ELSE IF ext = "fail_add" THEN CommandFailed(st, onBranch)
             ELSE IF rp.staged = {}
             THEN Res(st, onBranch, "err", Msg("No staged changes to commit."), NoTask)
             ELSE IF ext = "fail_commit" THEN CommandFailed(st, onBranch)
             ELSE IF ext = "fail_rev_parse" THEN CommandFailed(st, committed)
             ELSE Advance(st, committed,
                          [task EXCEPT !.commit_sha = CommitSha(task.branch, changes)],
                          TASK_STATUS_COMMITTED)

\* The compare link between the base branch and the task branch.
CompareUrl(branch) == <<"https://github.com/", "compare", BaseBranch, branch>>

\* A publish_task that stores no compare link.
PublishTaskBodyNoUrl(st, rp, task_id, ext) ==
    IF ~TaskExists(st, task_id) THEN NotFound(st, rp)
    ELSE LET task == GetTaskUnlocked(st, task_id)
             onBranch == [rp EXCEPT !.head = task.branch]
             pushed == [onBranch EXCEPT !.pushed = @ \cup {task.branch}]
         IN  IF CheckoutFails(rp, task.branch, ext) THEN CommandFailed(st, rp)
             ELSE IF ext = "fail_push" THEN CommandFailed(st, onBranch)
             ELSE IF ext = "fail_remote"
             THEN Res(st, pushed, "err", Msg("Could not parse remote URL"), NoTask)
             ELSE Advance(st, pushed, task, TASK_STATUS_PUBLISHED)

\* CodeOps.publish_task
PublishTaskBody(st, rp, task_id, ext) ==
    IF ~TaskExists(st, task_id) THEN NotFound(st, rp)
    ELSE LET task == GetTaskUnlocked(st, task_id)
             onBranch == [rp EXCEPT !.head = task.branch]
             pushed == [onBranch EXCEPT !.pushed = @ \cup {task.branch}]
         IN  IF CheckoutFails(rp, task.branch, ext) THEN CommandFailed(st, rp)
             ELSE IF ext = "fail_push" THEN CommandFailed(st, onBranch)
             ELSE IF ext = "fail_remote"
             THEN Res(st, pushed, "err", Msg("Could not parse remote URL"), NoTask)
             ELSE Advance(st, pushed,
                          [task EXCEPT !.compare_url = CompareUrl(task.branch)],
                          TASK_STATUS_PUBLISHED)

\* A fail_task that stores the whole error text.
FailTaskBodyUncut(st, rp, task_id, error) ==
    IF ~TaskExists(st, task_id) THEN NotFound(st, rp)
    ELSE LET task == GetTaskUnlocked(st, task_id)
             failed == [task EXCEPT !.status = TASK_STATUS_FAILED,
                                    !.last_error = error]
         IN  Res(UpsertTask(st, failed), rp, "ok", <<>>, failed)

\* CodeOps.fail_task
FailTaskBody(st, rp, task_id, error) ==
    IF ~TaskExists(st, task_id) THEN NotFound(st, rp)
    ELSE LET task == GetTaskUnlocked(st, task_id)
             failed == [task EXCEPT !.status = TASK_STATUS_FAILED,
                                    !.last_error = Prefix(error, ErrorMax)]
         IN  Res(UpsertTask(st, failed), rp, "ok", <<>>, failed)


(***************************************************************************)
(* State.                                                                  *)
(***************************************************************************)
VARIABLES
    cfg,          \* CONFIG, loaded once at startup
    store,        \* the task store file
    repo,         \* the git repository
    lockHolder,   \* CodeOps._state_lock: the coroutine holding it, or None
    waiters,      \* the coroutines queued on the lock, first come first
    pc,           \* where each coroutine is
    req,          \* the CodeOps call each coroutine is in
    snap,         \* the task object a suspended plan_task/patch_task holds
    last,         \* the CodeOps call that ended last, and how
    calls,        \* API calls issued so far
    createdIds,   \* the ids create_task has returned, in order
    createFailed, \* whether a create_task call has raised
    maxInside,    \* the most operation bodies ever in progress at once
    auth,         \* CONFIG.admin_channel_ids and CONFIG.allowed_user_ids
    msg,          \* the message on_message is handling, or was last
    todo,         \* the commands of it still to run
    seen,         \* what the last step of on_message did
    outbox,       \* the rows of the outbox file
    mails,        \* mails the relay has accepted
    restarts,     \* restarts of the bot triggered
    written,      \* leads files and draft outbox files written
    msgs,         \* messages delivered so far
    smtpConf,     \* OutreachOpsConfig: send_enabled, and the relay settings
    sendLog,      \* the send_outbox passes so far and what the last one did
    gen,          \* the generate_housing_leads call: where it is, what it holds
    draft,        \* the draft_housing_emails call: the files it reads and writes
    chan,         \* a _send_chunks call: the text, and what the channel has got
    sched         \* the weekly settings of CONFIG and the scheduler of the module

opsVars == <<cfg, store, repo, lockHolder, waiters, pc, req, snap, last,
             calls, createdIds, createFailed, maxInside>>

botVars == <<auth, msg, todo, seen, outbox, mails, restarts, written, msgs>>

outVars == <<smtpConf, sendLog, gen, draft, chan, sched>>

vars == <<opsVars, botVars, outVars>>

Req(op, task_id, title, instructions, error) ==
    [op |-> op, task_id |-> task_id, title |-> title,
     instructions |-> instructions, error |-> error]

NoReq == Req(None, 0, <<>>, <<>>, <<>>)

AwaitingModel == {"plan_llm", "patch_llm1", "patch_llm2"}

\* The coroutines inside an operation body, suspended on a model request.
Inside == {p \in Procs : pc[p] \in AwaitingModel}

\* An acquire that does not look at who holds the lock.
LockNeverHeld(p) == waiters = <<>> \/ Head(waiters) = p

\* asyncio.Lock.acquire returns at once for p: the lock is not held and
\* nobody queued before p.
LockFreeFor(p) ==
    /\ lockHolder = None
    /\ waiters = <<>> \/ Head(waiters) = p

\* The outcomes of the external commands each operation runs.
Outcomes(op) ==
    CASE op = "create_task" -> {"ok", "fail_ls_files"}
      [] op \in {"plan_task", "patch_task"} -> {"ok", "fail_ls_files"}
      [] op = "apply_task" -> {"ok", "fail_fetch", "fail_pull", "fail_apply",
                               "fail_verify"}
      [] op = "commit_task" -> {"ok", "fail_checkout", "fail_add", "fail_commit",
                                "fail_rev_parse"}
      [] op = "publish_task" -> {"ok", "fail_checkout", "fail_push", "fail_remote"}
      [] OTHER -> {"ok"}

\* The body of the call r, from the lock on.
Body(r, st, rp, ext) ==
    CASE r.op = "create_task" ->
            CreateTaskBody(st, rp, r.title, r.instructions, "u1", ext)
      [] r.op = "get_task" -> GetTaskBody(st, rp, r.task_id)
      [] r.op = "list_tasks" -> Res(st, rp, "ok", <<>>, NoTask)
      [] r.op = "plan_task" -> PlanTaskBody(st, rp, r.task_id, cfg.llm, ext)
      [] r.op = "patch_task" -> PatchTaskBody(st, rp, r.task_id, cfg.llm, ext)
      [] r.op = "apply_task" -> ApplyTaskBody(st, rp, r.task_id, cfg.verify, ext)
      [] r.op = "commit_task" -> CommitTaskBody(st, rp, r.task_id, ext)
      [] r.op = "publish_task" -> PublishTaskBody(st, rp, r.task_id, ext)
      [] r.op = "fail_task" -> FailTaskBody(st, rp, r.task_id, r.error)

\* The body of a suspended call from the answer of the model on.
Resume(r, at, st, rp, task, answer) ==
    IF r.op = "plan_task" THEN PlanTaskResume(st, rp, task, answer)
    ELSE PatchTaskResume(st, rp, task, at = "patch_llm2", answer)

\* Where a call that suspends on the model waits.
AwaitPc(r, at) ==
    IF r.op = "plan_task" THEN "plan_llm"
    ELSE IF at = "patch_llm1" THEN "patch_llm2" ELSE "patch_llm1"

\* What is recorded of a call that ended: the call, how it ended, the error
\* message or the task it returned, whether it ran straight from the queue of
\* the lock to its end, and a mark that flips at every end.
Event(r, res, queued, prev) ==
    [op |-> r.op, task_id |-> r.task_id, kind |-> res.kind,
     err |-> res.err, task |-> res.task, error |-> r.error,
     queued |-> queued, flip |-> ~prev.flip]

NoEvent ==
    [op |-> None, task_id |-> 0, kind |-> None, err |-> <<>>,
     task |-> NoTask, error |-> <<>>, queued |-> FALSE, flip |-> FALSE]

(***************************************************************************)
(* Inputs.                                                                 *)
(***************************************************************************)
PlaceholderText == <<"<", "a", ">">>

\* (title, instructions) pairs create_task is called with.
CreateInputs ==
    {<<(<<"a">>), (<<"a">>)>>,
     <<PlaceholderText, (<<"a">>)>>,
     <<(<<"a">>), (<<" ">> \o PlaceholderText \o <<" ">>)>>,
     <<(<<>>), (<<"a">>)>>,
     <<(<<"a">>), (<<" ">>)>>,
     <<(<<"a">>), (<<"a", " ">> \o PathLiteral)>>,
     <<(<<"a">>), (<<"a", " ">> \o InstructionsLiteral)>>}

LongError == Rep("e", ErrorMax) \o <<"z">>

ErrorInputs == {<<"e", "r", "r">>, LongError}

ModelAnswers ==
    {Answer("ok", <<Line.prose, Line.fence_diff, Line.diff_git, Line.index, Line.minus,
                    Line.plus, Line.add, Line.fence>>),
     Answer("ok", <<Line.prose, Line.minus, Line.plus, Line.add>>),
     Answer("ok", <<Line.prose>>),
     Answer("ok", <<>>),
     Answer("http_error", <<>>),
     Answer("exception", <<>>)}

\* The ids a caller may name: every id handed out, and the next one, which no
\* task has yet.
NamedIds(st) == 1..st.next_id

ApiRequests(st) ==
    {Req("create_task", 0, ti[1], ti[2], <<>>) : ti \in CreateInputs}
    \cup {Req(op, id, <<>>, <<>>, <<>>) :
            op \in {"get_task", "plan_task", "patch_task", "apply_task",
                    "commit_task", "publish_task"},
            id \in NamedIds(st)}
    \cup {Req("fail_task", id, <<>>, <<>>, e) : id \in NamedIds(st), e \in ErrorInputs}
    \cup {Req("list_tasks", 0, <<>>, <<>>, <<>>)}

(***************************************************************************)
(* SpecOps: coroutines calling the CodeOps API.                            *)
(***************************************************************************)
Configs == [llm : BOOLEAN, verify : BOOLEAN]

NoMessage == [bot |-> FALSE, channel |-> None, author |-> None, lines |-> <<>>]

\* An outbox of three drafts: one approved, one not, one sent already.  Every
\* field of a row is a text.
InitOutbox ==
    <<[to_email |-> <<"a", "@", "x">>, body |-> <<"b">>, approved |-> <<"y", "e", "s">>,
       sent_at |-> <<>>, last_error |-> <<>>],
      [to_email |-> <<"a", "@", "x">>, body |-> <<"b">>, approved |-> <<"n", "o">>,
       sent_at |-> <<>>, last_error |-> <<>>],
      [to_email |-> <<"a", "@", "x">>, body |-> <<"b">>, approved |-> <<"y", "e", "s">>,
       sent_at |-> <<"t">>, last_error |-> <<>>]>>

\* No send_outbox pass yet on an outbox of n rows.
NoSend(n) ==
    [passes |-> 0, limit |-> 0, dry_run |-> TRUE, approved_only |-> TRUE,
     outcome |-> [i \in 1..n |-> None], kind |-> None, attempted |-> 0, sent |-> 0, tried |-> {},
     contacted |-> {}, delivered |-> [i \in 1..n |-> 0]]

\* No generate_housing_leads call yet.
NoGen ==
    [pc |-> "idle", count |-> 0, issued |-> <<>>, answered |-> 0, log |-> <<>>,
     leads |-> <<>>,
     seen_domains |-> {}, err |-> <<>>, file |-> <<>>]

\* No draft_housing_emails call, and no files for one.
NoDraft ==
    [pc |-> "idle", leads |-> [readable |-> TRUE, rows |-> <<>>],
     template |-> [exists |-> FALSE, text |-> <<>>], outbox |-> <<>>, err |-> <<>>]

\* The scheduler as the module makes it: not running, no job; no weekly
\* channel configured.
NoSched ==
    [weekly_schedule_enabled |-> FALSE, weekly_channel_id |-> 0,
     running |-> FALSE, jobs |-> <<>>, starts |-> 0, readies |-> 0, weeks |-> 0,
     posts |-> 0]

\* No _send_chunks call.
NoChan == [pc |-> "idle", text |-> <<>>, parts |-> <<>>, sent |-> <<>>]

\* Everything but the task store, the outbox file and the outreach settings.
InitButStore ==
    /\ gen = NoGen
    /\ chan = NoChan
    /\ cfg \in Configs
    /\ repo = InitRepo
    /\ lockHolder = None
    /\ waiters = <<>>
    /\ pc = [p \in Procs |-> "idle"]
    /\ req = [p \in Procs |-> NoReq]
    /\ snap = [p \in Procs |-> NoTask]
    /\ last = NoEvent
    /\ calls = 0
    /\ createdIds = <<>>
    /\ createFailed = FALSE
    /\ maxInside = 0
    /\ msg = NoMessage
    /\ todo = <<>>
    /\ seen = [kind |-> None, command |-> <<>>, err |-> <<>>, replies |-> <<>>,
               handler |-> <<>>]
    /\ mails = 0
    /\ restarts = 0
    /\ written = [leads |-> 0, drafts |-> 0]
    /\ msgs = 0

\* The process started on a repository with no store file.
InitRest ==
    /\ InitButStore
    /\ store = InitStore

InitOps ==
    /\ InitRest
    /\ outbox = InitOutbox
    /\ smtpConf = [send_enabled |-> TRUE, configured |-> TRUE]
    /\ sendLog = NoSend(Len(InitOutbox))
    /\ draft = NoDraft
    /\ sched = NoSched

\* A lock that an operation ending with an error keeps.
SettleKeepsLockOnError(p, r, res) ==
    /\ store' = res.store
    /\ repo' = res.repo
    /\ waiters' = IF waiters # <<>> /\ Head(waiters) = p THEN Tail(waiters) ELSE waiters
    /\ maxInside' = IF Cardinality(Inside \cup {p}) > maxInside
                    THEN Cardinality(Inside \cup {p}) ELSE maxInside
    /\ IF res.kind = "await"
       THEN /\ lockHolder' = p
            /\ pc' = [pc EXCEPT ![p] = AwaitPc(r, pc[p])]
            /\ req' = [req EXCEPT ![p] = r]
            /\ snap' = [snap EXCEPT ![p] = res.task]
            /\ UNCHANGED <<last, createdIds, createFailed>>
       ELSE /\ lockHolder' = IF res.kind = "ok" THEN None ELSE p
            /\ pc' = [pc EXCEPT ![p] = "idle"]
            /\ req' = [req EXCEPT ![p] = NoReq]
            /\ snap' = [snap EXCEPT ![p] = NoTask]
            /\ last' = Event(r, res, pc[p] = "waiting", last)
            /\ createdIds' = IF r.op = "create_task" /\ res.kind = "ok"
                             THEN Append(createdIds, res.task.task_id)
                             ELSE createdIds
            /\ createFailed' = (createFailed \/ (r.op = "create_task" /\ res.kind # "ok"))

\* The call r of p has got the lock and run to res: a suspension on the model
\* request with the lock held, or its end, which releases the lock.
Settle(p, r, res) ==
    /\ store' = res.store
    /\ repo' = res.repo
    /\ waiters' = IF waiters # <<>> /\ Head(waiters) = p THEN Tail(waiters) ELSE waiters
    /\ maxInside' = IF Cardinality(Inside \cup {p}) > maxInside
                    THEN Cardinality(Inside \cup {p}) ELSE maxInside
    /\ IF res.kind = "await"
       THEN /\ lockHolder' = p
            /\ pc' = [pc EXCEPT ![p] = AwaitPc(r, pc[p])]
            /\ req' = [req EXCEPT ![p] = r]
            /\ snap' = [snap EXCEPT ![p] = res.task]
            /\ UNCHANGED <<last, createdIds, createFailed>>
       ELSE /\ lockHolder' = None
            /\ pc' = [pc EXCEPT ![p] = "idle"]
            /\ req' = [req EXCEPT ![p] = NoReq]
            /\ snap' = [snap EXCEPT ![p] = NoTask]
            /\ last' = Event(r, res, pc[p] = "waiting", last)
            /\ createdIds' = IF r.op = "create_task" /\ res.kind = "ok"
                             THEN Append(createdIds, res.task.task_id)
                             ELSE createdIds
            /\ createFailed' = (createFailed \/ (r.op = "create_task" /\ res.kind # "ok"))

\* A coroutine calls an operation.  With the lock free the body runs at once;
\* otherwise the coroutine queues on the lock.  Coroutines are alike: the
\* call is given to the first idle one.
Invoke(p, r) ==
    /\ pc[p] = "idle"
    /\ \A q \in Procs : pc[q] = "idle" => Rank(p) <= Rank(q)
    /\ UNCHANGED <<cfg, botVars, outVars>>
    /\ IF LockFreeFor(p)
       THEN \E ext \in Outcomes(r.op) : Settle(p, r, Body(r, store, repo, ext))
       ELSE /\ pc' = [pc EXCEPT ![p] = "waiting"]
            /\ req' = [req EXCEPT ![p] = r]
            /\ waiters' = Append(waiters, p)
            /\ UNCHANGED <<store, repo, lockHolder, snap, last, createdIds,
                           createFailed, maxInside>>

ApiCall(p, r) ==
    /\ calls < MaxCalls
    /\ calls' = calls + 1
    /\ Invoke(p, r)

\* The first waiter gets the released lock and runs its body.
ApiResume(p) ==
    /\ pc[p] = "waiting"
    /\ LockFreeFor(p)
    /\ \E ext \in Outcomes(req[p].op) :
            Settle(p, req[p], Body(req[p], store, repo, ext))
    /\ UNCHANGED <<cfg, calls, botVars, outVars>>

\* The model request of a suspended plan_task or patch_task comes back.
ModelAnswer(p, answer) ==
    /\ pc[p] \in AwaitingModel
    /\ Settle(p, req[p], Resume(req[p], pc[p], store, repo, snap[p], answer))
    /\ UNCHANGED <<cfg, calls, botVars, outVars>>

NextOps ==
    \/ \E p \in Procs : \E r \in ApiRequests(store) : ApiCall(p, r)
    \/ \E p \in Procs : ApiResume(p)
    \/ \E p \in Procs : \E a \in ModelAnswers : ModelAnswer(p, a)

\* The engine on its own: no dispatcher in front of it.
InitApi == InitOps /\ auth = [admin_channel_ids |-> {}, allowed_user_ids |-> {}]

SpecOps == InitApi /\ [][NextOps]_vars

\* The engine with its scheduling: the event loop runs the first waiter of a
\* released lock, and every model request comes back, with an answer or
\* with a failure.
Scheduling ==
    \A p \in Procs :
        /\ WF_vars(ApiResume(p))
        /\ WF_vars(\E a \in ModelAnswers : ModelAnswer(p, a))

\* The calls whose waiting and ending is followed: creations, and the steps
\* of the first task that take the model or the external commands.
LiveRequests ==
    {Req("create_task", 0, <<"a">>, <<"a">>, <<>>)}
    \cup {Req(op, 1, <<>>, <<>>, <<>>) : op \in {"plan_task", "patch_task", "apply_task"}}

NextLive ==
    \/ \E p \in Procs : \E r \in LiveRequests : ApiCall(p, r)
    \/ \E p \in Procs : ApiResume(p)
    \/ \E p \in Procs : \E a \in ModelAnswers : ModelAnswer(p, a)

SpecLive == InitApi /\ [][NextLive]_vars /\ Scheduling

(***************************************************************************)
(* SpecFlow: the workflow of the first task, one call at a time, in a      *)
(* store of at most two tasks.  The second task is only created and        *)
(* failed.                                                                 *)
(***************************************************************************)
FlowAnswers ==
    {Answer("ok", <<Line.prose, Line.fence_diff, Line.diff_git, Line.index, Line.minus,
                    Line.plus, Line.add, Line.fence>>),
     Answer("ok", <<Line.prose>>),
     Answer("http_error", <<>>)}

FlowRequests(st) ==
    {Req("create_task", 0, <<"a">>, <<"a">>, <<>>)}
    \cup {Req(op, id, <<>>, <<>>, <<>>) :
            op \in {"plan_task", "patch_task", "apply_task",
                    "commit_task", "publish_task"},
            id \in {1, st.next_id}}
    \cup {Req("fail_task", id, <<>>, <<>>, e) : id \in NamedIds(st), e \in {<<"e", "r", "r">>}}

FlowCall(p, r) ==
    /\ r.op = "create_task" => store.next_id <= MaxIds
    /\ \A q \in Procs : pc[q] = "idle"
    /\ UNCHANGED calls
    /\ Invoke(p, r)

NextFlow ==
    \/ \E p \in Procs : \E r \in FlowRequests(store) : FlowCall(p, r)
    \/ \E p \in Procs : \E a \in FlowAnswers : ModelAnswer(p, a)

SpecFlow == InitApi /\ [][NextFlow]_vars

(***************************************************************************)
(* Command texts: str.split, str.upper, str.lower, and the parsers of      *)
(* codeops.py and bot.py.                                                  *)
(***************************************************************************)
Digits == <<"0", "1", "2", "3", "4", "5", "6", "7", "8", "9">>

LowerLetters == <<"a", "b", "c", "d", "e", "f", "g", "h", "i", "j", "k", "l", "m", "n", "o", "p", "q", "r", "s", "t", "u", "v", "w", "x", "y", "z">>

UpperLetters == <<"A", "B", "C", "D", "E", "F", "G", "H", "I", "J", "K", "L", "M", "N", "O", "P", "Q", "R", "S", "T", "U", "V", "W", "X", "Y", "Z">>

IsDigit(c) == \E i \in 1..Len(Digits) : Digits[i] = c

IsWordChar(c) ==
    \/ IsDigit(c)
    \/ c = "_"
    \/ \E i \in 1..Len(LowerLetters) : c \in {LowerLetters[i], UpperLetters[i]}

UpperChar(c) ==
    IF \E i \in 1..Len(LowerLetters) : LowerLetters[i] = c
    THEN UpperLetters[CHOOSE i \in 1..Len(LowerLetters) : LowerLetters[i] = c]
    ELSE c

LowerChar(c) ==
    IF \E i \in 1..Len(UpperLetters) : UpperLetters[i] = c
    THEN LowerLetters[CHOOSE i \in 1..Len(UpperLetters) : UpperLetters[i] = c]
    ELSE c

Upper(s) == [i \in 1..Len(s) |-> UpperChar(s[i])]

Lower(s) == [i \in 1..Len(s) |-> LowerChar(s[i])]

\* int() of a run of digits.
RECURSIVE ToInt(_)
ToInt(ds) ==
    IF ds = <<>> THEN 0
    ELSE 10 * ToInt(SubSeq(ds, 1, Len(ds) - 1))
         + (CHOOSE i \in 1..Len(Digits) : Digits[i] = ds[Len(ds)]) - 1

\* The longest run of digits s starts with.
LeadingDigits(s) ==
    LET stops == {i \in 1..Len(s) : ~IsDigit(s[i])}
    IN  IF stops = {} THEN s ELSE SubSeq(s, 1, MinOf(stops) - 1)

\* str.split(): the words of s between runs of spaces.
RECURSIVE Tokens(_)
Tokens(s) ==
    LET inked == {i \in 1..Len(s) : ~IsSpace(s[i])}
    IN  IF inked = {} THEN <<>>
        ELSE LET from == MinOf(inked)
                 gaps == {i \in from..Len(s) : IsSpace(s[i])}
                 to == IF gaps = {} THEN Len(s) + 1 ELSE MinOf(gaps)
             IN  <<SubSeq(s, from, to - 1)>> \o Tokens(Suffix(s, to))

\* " ".join(parts)
RECURSIVE Join(_)
Join(parts) ==
    IF parts = <<>> THEN <<>>
    ELSE IF Len(parts) = 1 THEN parts[1]
    ELSE parts[1] \o <<" ">> \o Join(Tail(parts))

\* str.partition(" "): the text before the first space, and the text after.
BeforeSpace(s) ==
    LET gaps == {i \in 1..Len(s) : IsSpace(s[i])}
    IN  IF gaps = {} THEN s ELSE SubSeq(s, 1, MinOf(gaps) - 1)

AfterSpace(s) ==
    LET gaps == {i \in 1..Len(s) : IsSpace(s[i])}
    IN  IF gaps = {} THEN <<>> ELSE Suffix(s, MinOf(gaps) + 1)

\* parse_task_id: an optional hash sign, digits, and then the end or a
\* character that is no letter, digit or underscore.
ParseTaskId(value) ==
    LET cleaned == Strip(value)
        body == IF cleaned # <<>> /\ cleaned[1] = "#" THEN Tail(cleaned) ELSE cleaned
        digits == LeadingDigits(body)
        rest == Suffix(body, Len(digits) + 1)
    IN  IF digits # <<>> /\ (rest = <<>> \/ ~IsWordChar(rest[1]))
        THEN [ok |-> TRUE, task_id |-> ToInt(digits), err |-> <<>>]
        ELSE [ok |-> FALSE, task_id |-> 0,
              err |-> Msg("Task ID must be a number")]

\* A parse_title_and_instructions that lets placeholders through.
ParseTitleAndInstructionsLax(raw) ==
    LET content == Strip(raw)
        bars == Occurrences(<<"|", "|">>, content)
        title == IF bars # {} THEN Strip(SubSeq(content, 1, MinOf(bars) - 1))
                 ELSE Prefix(content, TitleCut)
        instructions == IF bars # {} THEN Strip(Suffix(content, MinOf(bars) + 2))
                        ELSE content
    IN  [ok |-> content # <<>>, err |-> Msg("Usage: task"),
         title |-> title, instructions |-> instructions]

\* parse_title_and_instructions
ParseTitleAndInstructions(raw) ==
    LET content == Strip(raw)
        bars == Occurrences(<<"|", "|">>, content)
        title == IF bars # {} THEN Strip(SubSeq(content, 1, MinOf(bars) - 1))
                 ELSE Prefix(content, TitleCut)
        instructions == IF bars # {} THEN Strip(Suffix(content, MinOf(bars) + 2))
                        ELSE content
        err == IF content = <<>> THEN Msg("Usage: task")
               ELSE IF title = <<>> THEN Msg("Task title cannot be empty.")
               ELSE IF instructions = <<>> THEN Msg("Task instructions cannot be empty.")
               ELSE IF IsPlaceholder(title) \/ IsPlaceholder(instructions)
               THEN Msg("It looks like you pasted placeholders")
               ELSE <<>>
    IN  [ok |-> err = <<>>, err |-> err, title |-> title,
         instructions |-> instructions]

\* re.search of a hash sign followed by digits: the number after the first
\* such hash sign.
TaskRef(text) ==
    LET hits == {i \in 1..(Len(text) - 1) : text[i] = "#" /\ IsDigit(text[i + 1])}
    IN  IF hits = {} THEN [found |-> FALSE, task_id |-> 0]
        ELSE [found |-> TRUE,
              task_id |-> ToInt(LeadingDigits(Suffix(text, MinOf(hits) + 1)))]

ConfirmFlag == <<"-", "-", "c", "o", "n", "f", "i", "r", "m">>
DeployWord == <<"D", "E", "P", "L", "O", "Y">>
ShipWord == <<"S", "H", "I", "P">>
SendWord == <<"S", "E", "N", "D">>

\* _handle_deploy: the arguments are the confirmation and nothing else.
DeployConfirmed(args) ==
    Upper(Strip(Strip(args))) = Upper(ConfirmFlag \o <<" ">> \o DeployWord)

\* A _strip_confirm_flag that takes any text as confirmed.
StripConfirmFlagAlways(raw, expected) ==
    LET parts == Tokens(raw)
        at == {i \in 1..Len(parts) : parts[i] = ConfirmFlag}
    IN  IF at = {} THEN [kept |-> Strip(raw), ok |-> TRUE]
        ELSE [kept |-> Strip(Join(SubSeq(parts, 1, MinOf(at) - 1)
                                  \o Suffix(parts, MinOf(at) + 2))),
              ok |-> TRUE]

\* _strip_confirm_flag
StripConfirmFlag(raw, expected) ==
    LET parts == Tokens(raw)
        at == {i \in 1..Len(parts) : parts[i] = ConfirmFlag}
    IN  IF at = {} THEN [kept |-> Strip(raw), ok |-> FALSE]
        ELSE LET idx == MinOf(at)
                 token == IF idx + 1 <= Len(parts) THEN parts[idx + 1] ELSE <<>>
             IN  [kept |-> Strip(Join(SubSeq(parts, 1, idx - 1)
                                      \o Suffix(parts, idx + 2))),
                  ok |-> Upper(Strip(token)) = Upper(expected)]

\* The pattern _handle_ship tests the first word with: an optional hash sign,
\* a backslash, one or more letters d, a backslash and the letter b.
ShipFirstIsId(first) ==
    LET body == IF first # <<>> /\ first[1] = "#" THEN Tail(first) ELSE first
        ds == {i \in 2..Len(body) : body[i] # "d"}
    IN  /\ Len(body) >= 4
        /\ body[1] = "\\"
        /\ body[2] = "d"
        /\ ds # {}
        /\ body[MinOf(ds)] = "\\"
        /\ MinOf(ds) + 1 <= Len(body)
        /\ body[MinOf(ds) + 1] = "b"

(***************************************************************************)
(* The chat dispatcher of bot.py.  A handler is taken in one step, with    *)
(* every CodeOps call, git command and reply it makes; its result is the   *)
(* world it leaves (task store, repository, outbox file, mail delivered,   *)
(* restarts triggered, files written), the replies it sent and how it      *)
(* ended: "ok", "err" (CodeOpsError or OutreachOpsError with message err)   *)
(* or "exc" (any other exception).                                         *)
(***************************************************************************)
Cmd ==
    [help |-> <<"h", "e", "l", "p">>,
     show |-> <<"s", "h", "o", "w">>,
     preview |-> <<"p", "r", "e", "v", "i", "e", "w">>,
     task |-> <<"t", "a", "s", "k">>,
     plan |-> <<"p", "l", "a", "n">>,
     diff |-> <<"d", "i", "f", "f">>,
     apply |-> <<"a", "p", "p", "l", "y">>,
     commit |-> <<"c", "o", "m", "m", "i", "t">>,
     pr |-> <<"p", "r">>,
     run |-> <<"r", "u", "n">>,
     merge |-> <<"m", "e", "r", "g", "e">>,
     deploy |-> <<"d", "e", "p", "l", "o", "y">>,
     ship |-> <<"s", "h", "i", "p">>,
     outreach |-> <<"o", "u", "t", "r", "e", "a", "c", "h">>,
     do |-> <<"d", "o">>]

READ_COMMANDS ==
    {Cmd.help, <<"s", "t", "a", "t", "u", "s">>, <<"t", "a", "s", "k", "s">>,
     Cmd.show, Cmd.preview, <<"r", "e", "p", "o">>, <<"i", "d">>, <<"p", "i", "n", "g">>}

MUTATING_COMMANDS ==
    {Cmd.task, Cmd.plan, Cmd.diff, Cmd.apply,
     Cmd.commit, Cmd.pr, Cmd.run, Cmd.merge,
     Cmd.deploy, Cmd.ship, Cmd.outreach, Cmd.do}

\* CONFIG.command_prefix
CommandPrefix == <<"!", "k", "i", "r", "o", "k", "u">>

\* A _is_admin_channel that takes every channel.
IsAdminChannelAny(admin_channel_ids, channel_id) == TRUE

\* _is_admin_channel
IsAdminChannel(admin_channel_ids, channel_id) ==
    IF admin_channel_ids = {} THEN TRUE ELSE channel_id \in admin_channel_ids

\* A _is_allowed_user that takes every user.
IsAllowedUserAny(allowed_user_ids, user_id) == TRUE

\* _is_allowed_user
IsAllowedUser(allowed_user_ids, user_id) ==
    IF allowed_user_ids = {} THEN TRUE ELSE user_id \in allowed_user_ids

\* on_message: the (command, args) pairs of the lines of a message that start
\* with the prefix; a bare prefix stands for help.
RECURSIVE ParseLines(_)
ParseLines(lines) ==
    IF lines = <<>> THEN <<>>
    ELSE LET ln == Strip(Head(lines))
             payload == Strip(Suffix(ln, Len(CommandPrefix) + 1))
             parts == Tokens(payload)
             rest == Suffix(payload, Len(parts[1]) + 1)
         IN  IF ln = <<>> \/ Lower(Prefix(ln, Len(CommandPrefix))) # Lower(CommandPrefix)
             THEN ParseLines(Tail(lines))
             ELSE IF payload = <<>>
             THEN <<[command |-> Cmd.help, args |-> <<>>]>> \o ParseLines(Tail(lines))
             ELSE <<[command |-> parts[1],
                     args |-> IF Strip(rest) = <<>> THEN <<>>
                              ELSE Suffix(rest, MinOf({i \in 1..Len(rest) :
                                                        ~IsSpace(rest[i])}))]>>
                  \o ParseLines(Tail(lines))

(***************************************************************************)
(* The outbox file and OutreachOps.send_outbox.                            *)
(***************************************************************************)
OutboxName == <<"o">>

\* A reader that also lower-cases what it reads.
ReadCsvLowers(file) ==
    [i \in 1..Len(file) |-> [k \in DOMAIN file[i] |-> Lower(Strip(file[i][k]))]]

\* csv.DictReader in OutreachOps._read_csv: every field of every row comes
\* back stripped.
ReadCsv(file) ==
    [i \in 1..Len(file) |-> [k \in DOMAIN file[i] |-> Strip(file[i][k])]]

\* A _smtp_send without the send_enabled check.
SmtpSendUnchecked(conf, relay) ==
    IF ~conf.configured THEN "unconfigured" ELSE relay

\* OutreachOps._smtp_send for one row: "disabled" and "unconfigured" are
\* raised before the relay is contacted; with both checks passed the relay
\* decides (relay: "ok", "refused", or "refused_long" for a refusal with a
\* text longer than a row keeps).
SmtpSend(conf, relay) ==
    IF ~conf.send_enabled THEN "disabled"
    ELSE IF ~conf.configured THEN "unconfigured"
    ELSE relay

LongRelayError == Rep("e", RowErrorMax) \o <<"z">>

\* What str(exc) is when _smtp_send raises.
SmtpError(smtp) ==
    IF smtp = "disabled" THEN Msg("Sending is disabled")
    ELSE IF smtp = "unconfigured" THEN Msg("SMTP is not configured")
    ELSE IF smtp = "refused_long" THEN LongRelayError
    ELSE Msg("SMTPException")

\* _iso_now(): some non-empty text.
SentStamp == <<"n", "o", "w">>

IsApproved(row) == Lower(Strip(row.approved)) = <<"y", "e", "s">>

\* A selection that does not count the attempts.
SkipRowNoLimit(row, attempted, limit, approved_only) ==
    \/ row.sent_at # <<>>
    \/ approved_only /\ ~IsApproved(row)

\* A selection that does not look at sent_at.
SkipRowIgnoresSent(row, attempted, limit, approved_only) ==
    \/ approved_only /\ ~IsApproved(row)
    \/ attempted >= limit

\* send_outbox: the three tests that pass a row through untouched.
SkipRow(row, attempted, limit, approved_only) ==
    \/ row.sent_at # <<>>
    \/ approved_only /\ ~IsApproved(row)
    \/ attempted >= limit

\* A try block that stamps the row in a dry run as well.
TryRowDryMarksSent(row, dry_run, outcome) ==
    IF ~dry_run /\ outcome # "ok"
    THEN [row EXCEPT !.last_error = Prefix(SmtpError(outcome), RowErrorMax)]
    ELSE [row EXCEPT !.sent_at = SentStamp, !.last_error = <<>>]

\* A try block that records the whole error text.
TryRowUncut(row, dry_run, outcome) ==
    IF ~dry_run /\ outcome # "ok"
    THEN [row EXCEPT !.last_error = SmtpError(outcome)]
    ELSE [row EXCEPT !.sent_at = IF dry_run THEN <<>> ELSE SentStamp,
                     !.last_error = <<>>]

\* send_outbox: the try block for an attempted row, outcome being how
\* _smtp_send ends for it.
TryRow(row, dry_run, outcome) ==
    IF ~dry_run /\ outcome # "ok"
    THEN [row EXCEPT !.last_error = Prefix(SmtpError(outcome), RowErrorMax)]
    ELSE [row EXCEPT !.sent_at = IF dry_run THEN <<>> ELSE SentStamp,
                     !.last_error = <<>>]

\* The loop of OutreachOps.send_outbox over the rows from index i on,
\* attempted counting the rows tried before; smtp[i] is how _smtp_send ends
\* for row i.  tried are the rows attempted, contacted those handed to the
\* relay.
RECURSIVE SendRows(_, _, _, _, _, _, _)
SendRows(rows, i, attempted, limit, dry_run, approved_only, smtp) ==
    IF i > Len(rows)
    THEN [rows |-> rows, attempted |-> attempted, sent |-> 0, tried |-> {},
          contacted |-> {}]
    ELSE LET skip == SkipRow(rows[i], attempted, limit, approved_only)
             row == TryRow(rows[i], dry_run, smtp[i])
             after == SendRows(IF skip THEN rows ELSE [rows EXCEPT ![i] = row],
                               i + 1, IF skip THEN attempted ELSE attempted + 1,
                               limit, dry_run, approved_only, smtp)
         IN  [after EXCEPT
                !.sent = @ + (IF ~skip /\ ~dry_run /\ smtp[i] = "ok" THEN 1 ELSE 0),
                !.tried = IF skip THEN @ ELSE @ \cup {i},
                !.contacted = IF ~skip /\ ~dry_run
                                 /\ smtp[i] \notin {"disabled", "unconfigured"}
                              THEN @ \cup {i} ELSE @]

\* OutreachOps.send_outbox on the file: read, pass, rewrite.  _write_csv
\* refuses an outbox without rows, and then the file stays as it is.
SendOutbox(file, limit, dry_run, approved_only, smtp) ==
    LET pass == SendRows(ReadCsv(file), 1, 0, limit, dry_run, approved_only, smtp)
    IN  IF file = <<>>
        THEN [kind |-> "err", err |-> Msg("Cannot write empty CSV."), file |-> file,
              attempted |-> 0, sent |-> 0, tried |-> {}, contacted |-> {}]
        ELSE [kind |-> "ok", err |-> <<>>, file |-> pass.rows,
              attempted |-> pass.attempted, sent |-> pass.sent,
              tried |-> pass.tried, contacted |-> pass.contacted]

Flag ==
    [limit |-> <<"-", "-", "l", "i", "m", "i", "t">>,
     dry_run |-> <<"-", "-", "d", "r", "y", "-", "r", "u", "n">>,
     send |-> <<"-", "-", "s", "e", "n", "d">>,
     approved_only |-> <<"-", "-", "a", "p", "p", "r", "o", "v", "e", "d", "-", "o", "n", "l", "y">>,
     all |-> <<"-", "-", "a", "l", "l">>,
     unsent_only |-> <<"-", "-", "u", "n", "s", "e", "n", "t", "-", "o", "n", "l", "y">>,
     first |-> <<"-", "-", "f", "i", "r", "s", "t">>,
     ids |-> <<"-", "-", "i", "d", "s">>]

\* str.isdigit
IsDigits(s) == s # <<>> /\ \A i \in 1..Len(s) : IsDigit(s[i])

DefaultSendLimit == 10

\* The flag loop of outreach send, from word i on.
RECURSIVE SendFlags(_, _, _)
SendFlags(parts, i, f) ==
    IF i > Len(parts) THEN f
    ELSE LET token == parts[i]
         IN  IF token = Flag.limit
             THEN IF i + 1 > Len(parts) \/ ~IsDigits(parts[i + 1])
                  THEN [f EXCEPT !.err = Msg("--limit requires a number.")]
                  ELSE SendFlags(parts, i + 2, [f EXCEPT !.limit = ToInt(parts[i + 1])])
             ELSE IF token = Flag.dry_run
             THEN SendFlags(parts, i + 1, [f EXCEPT !.dry_run = TRUE])
             ELSE IF token = Flag.send
             THEN SendFlags(parts, i + 1, [f EXCEPT !.dry_run = FALSE])
             ELSE IF token = Flag.approved_only
             THEN SendFlags(parts, i + 1, [f EXCEPT !.approved_only = TRUE])
             ELSE IF token = Flag.all
             THEN SendFlags(parts, i + 1, [f EXCEPT !.approved_only = FALSE])
             ELSE IF token = ConfirmFlag
             THEN SendFlags(parts, i + 2,
                            [f EXCEPT !.confirm = IF i + 1 <= Len(parts)
                                                  THEN parts[i + 1] ELSE <<>>])
             ELSE [f EXCEPT !.err = Msg("Unknown flag")]

\* The flag loop of outreach list: whether it ends without an error.
RECURSIVE ListFlagsOk(_, _)
ListFlagsOk(parts, i) ==
    IF i > Len(parts) THEN TRUE
    ELSE IF parts[i] = Flag.limit
    THEN i + 1 <= Len(parts) /\ IsDigits(parts[i + 1]) /\ ListFlagsOk(parts, i + 2)
    ELSE IF parts[i] \in {Flag.unsent_only, Flag.all} THEN ListFlagsOk(parts, i + 1)
    ELSE FALSE

\* The flag loop of outreach approve: whether it ends without an error.
RECURSIVE ApproveFlagsOk(_, _)
ApproveFlagsOk(parts, i) ==
    IF i > Len(parts) THEN TRUE
    ELSE IF parts[i] = Flag.all THEN ApproveFlagsOk(parts, i + 1)
    ELSE IF parts[i] = Flag.first
    THEN i + 1 <= Len(parts) /\ IsDigits(parts[i + 1]) /\ ApproveFlagsOk(parts, i + 2)
    ELSE IF parts[i] = Flag.ids THEN ApproveFlagsOk(parts, i + 2)
    ELSE FALSE

(***************************************************************************)
(* Handlers.                                                               *)
(***************************************************************************)
\* What a handler works on.
World ==
    [store |-> store, repo |-> repo, outbox |-> outbox, mails |-> mails,
     restarts |-> restarts, written |-> written]

HOk(w, replies) == [world |-> w, replies |-> replies, kind |-> "ok", err |-> <<>>]

HErr(w, replies, err) == [world |-> w, replies |-> replies, kind |-> "err", err |-> err]

HExc(w, replies, err) == [world |-> w, replies |-> replies, kind |-> "exc", err |-> err]

\* The outcomes of external commands and the answers of the model the
\* dispatcher specifications follow.
BotOutcomes(op) ==
    CASE op = "apply_task" -> {"ok", "fail_apply"}
      [] op = "publish_task" -> {"ok", "fail_push"}
      [] OTHER -> {"ok"}

BotAnswers ==
    {Answer("ok", <<Line.prose, Line.fence_diff, Line.diff_git, Line.index, Line.minus,
                    Line.plus, Line.add, Line.fence>>),
     Answer("ok", <<Line.prose>>)}

\* A CodeOps call awaited by a handler, run to its end: the lock is free, and
\* the model answers while the call is suspended.
OpResults(r, st, rp) ==
    LET answered(at, S) ==
            UNION {IF res.kind = "await"
                   THEN {Resume(r, at, res.store, res.repo, res.task, a) : a \in BotAnswers}
                   ELSE {res} : res \in S}
    IN  answered("patch_llm2",
                 answered("patch_llm1",
                          {Body(r, st, rp, ext) : ext \in BotOutcomes(r.op)}))

\* The handler results of one awaited CodeOps call: the world after it, and
\* the reply on success.
OpCall(r, w, replies, reply) ==
    {IF res.kind = "ok"
     THEN HOk([w EXCEPT !.store = res.store, !.repo = res.repo], Append(replies, reply))
     ELSE [world |-> [w EXCEPT !.store = res.store, !.repo = res.repo],
           replies |-> replies, kind |-> res.kind, err |-> res.err]
     : res \in OpResults(r, w.store, w.repo)}

\* Calls made one after the other whether or not one raises.
RECURSIVE PipelineGoesOn(_, _, _, _)
PipelineGoesOn(steps, task_id, w, replies) ==
    IF steps = <<>> THEN {HOk(w, replies)}
    ELSE UNION {PipelineGoesOn(Tail(steps), task_id, h.world, h.replies)
                : h \in OpCall(Req(Head(steps), task_id, <<>>, <<>>, <<>>), w,
                               replies, Head(steps))}

\* Calls made one after the other, each followed by a reply, until one raises.
RECURSIVE Pipeline(_, _, _, _)
Pipeline(steps, task_id, w, replies) ==
    IF steps = <<>> THEN {HOk(w, replies)}
    ELSE UNION {IF h.kind = "ok"
                THEN Pipeline(Tail(steps), task_id, h.world, h.replies)
                ELSE {h}
                : h \in OpCall(Req(Head(steps), task_id, <<>>, <<>>, <<>>), w,
                               replies, Head(steps))}

RunSteps == <<"plan_task", "patch_task", "apply_task", "commit_task", "publish_task">>

\* _handle_show and _handle_preview
HandleShow(w, args) ==
    LET id == ParseTaskId(Strip(args))
    IN  IF ~id.ok THEN {HErr(w, <<>>, id.err)}
        ELSE OpCall(Req("get_task", id.task_id, <<>>, <<>>, <<>>), w, <<>>, "task")

\* _handle_task_create
HandleTaskCreate(w, args, author) ==
    LET parsed == ParseTitleAndInstructions(args)
    IN  IF ~parsed.ok THEN {HErr(w, <<>>, parsed.err)}
        ELSE {IF res.kind = "ok"
              THEN HOk([w EXCEPT !.store = res.store], <<"Created">>)
              ELSE HErr([w EXCEPT !.store = res.store], <<>>, res.err)
              : res \in {CreateTaskBody(w.store, w.repo, parsed.title,
                                        parsed.instructions, author, ext)
                         : ext \in BotOutcomes("create_task")}}

\* _handle_plan, _handle_diff, _handle_apply, _handle_pr
HandleStep(w, args, op) ==
    LET id == ParseTaskId(Strip(args))
    IN  IF ~id.ok THEN {HErr(w, <<>>, id.err)}
        ELSE OpCall(Req(op, id.task_id, <<>>, <<>>, <<>>), w, <<>>, op)

\* _handle_commit
HandleCommit(w, args) ==
    LET raw == Strip(args)
        id == ParseTaskId(BeforeSpace(raw))
    IN  IF raw = <<>> THEN {HErr(w, <<>>, Msg("Usage: commit"))}
        ELSE IF ~id.ok THEN {HErr(w, <<>>, id.err)}
        ELSE OpCall(Req("commit_task", id.task_id, <<>>, <<>>, <<>>), w, <<>>,
                    "commit_task")

\* _handle_run
HandleRun(w, args) ==
    LET id == ParseTaskId(Strip(args))
    IN  IF ~id.ok THEN {HErr(w, <<>>, id.err)}
        ELSE Pipeline(RunSteps, id.task_id, w, <<"Running">>)

DirtyError == Msg("Repo is dirty; refusing operation.")

\* _handle_merge: CodeOps has no merge_task.
HandleMerge(w, args) ==
    LET id == ParseTaskId(Strip(args))
    IN  IF ~id.ok THEN {HErr(w, <<>>, id.err)}
        ELSE IF RepoDirty(w.repo) THEN {HErr(w, <<>>, DirtyError)}
        ELSE {HExc(w, <<"Merging">>, Msg("AttributeError: merge_task"))}

\* _handle_deploy
HandleDeploy(w, args) ==
    IF ~DeployConfirmed(args) THEN {HErr(w, <<>>, Msg("Usage: deploy --confirm DEPLOY"))}
    ELSE IF RepoDirty(w.repo) THEN {HErr(w, <<>>, DirtyError)}
    ELSE {HErr(w, <<"Deploying">>, Msg("git command failed")),
          HErr([w EXCEPT !.repo.head = BaseBranch], <<"Deploying">>,
               Msg("git command failed")),
          HOk([w EXCEPT !.repo.head = BaseBranch, !.restarts = @ + 1],
              <<"Deploying">>)}

ShipRefused == Msg("Refusing to ship without --confirm SHIP.")

\* _handle_ship.  The task is always a new one unless the first word matches
\* ShipFirstIsId; after the five steps merge_task is called, which CodeOps
\* does not have.
HandleShip(w, args, author) ==
    LET flag == StripConfirmFlag(args, ShipWord)
        raw == Strip(flag.kept)
        first == Tokens(raw)[1]
        id == ParseTaskId(first)
        parsed == ParseTitleAndInstructions(raw)
        created == {CreateTaskBody(w.store, w.repo, parsed.title, parsed.instructions,
                                   author, ext) : ext \in BotOutcomes("create_task")}
        shipped(hs) ==
            {IF h.kind = "ok"
             THEN HExc(h.world, h.replies, Msg("AttributeError: merge_task"))
             ELSE h : h \in hs}
    IN  IF ~flag.ok THEN {HErr(w, <<>>, ShipRefused)}
        ELSE IF RepoDirty(w.repo) THEN {HErr(w, <<>>, DirtyError)}
        ELSE IF raw = <<>> THEN {HErr(w, <<>>, Msg("Usage: ship"))}
        ELSE IF ShipFirstIsId(first)
        THEN IF ~id.ok THEN {HErr(w, <<>>, id.err)}
             ELSE shipped(Pipeline(RunSteps, id.task_id, w, <<"Shipping">>))
        ELSE IF ~parsed.ok THEN {HErr(w, <<>>, parsed.err)}
        ELSE UNION {IF res.kind = "ok"
                    THEN shipped(Pipeline(RunSteps, res.task.task_id,
                                          [w EXCEPT !.store = res.store],
                                          <<"Created", "Shipping">>))
                    ELSE {HErr([w EXCEPT !.store = res.store], <<>>, res.err)}
                    : res \in created}

\* OutreachOps.generate_housing_leads, by what the search comes back with.
GenerateHousingLeads(w, count, found, replies) ==
    IF count <= 0 THEN {HErr(w, replies, Msg("count must be > 0"))}
    ELSE IF found = "no_provider"
    THEN {HErr(w, replies, Msg("SEARCH_PROVIDER must be set"))}
    ELSE IF found = "no_leads"
    THEN {HErr(w, replies, Msg("No leads found from search results."))}
    ELSE {HOk([w EXCEPT !.written.leads = @ + 1], replies)}

\* OutreachOps.draft_housing_emails, by what the leads file and the template
\* hold.
DraftHousingEmails(w, leads, replies) ==
    IF leads = "unreadable" THEN {HErr(w, replies, Msg("Failed reading CSV"))}
    ELSE IF leads = "no_template" THEN {HErr(w, replies, Msg("Template not found"))}
    ELSE IF leads = "no_emails"
    THEN {HErr(w, replies, Msg("No draftable leads found (missing contact_email)."))}
    ELSE {HOk([w EXCEPT !.written.drafts = @ + 1], Append(replies, "Drafted"))}

SearchOutcomes == {"ok", "no_leads"}

LeadsOutcomes == {"ok", "no_emails"}

SmtpOutcomes == {"ok", "disabled", "refused"}

\* The send branch of _handle_outreach.
HandleOutreachSend(w, rest) ==
    LET parts == Tokens(rest)
        f == SendFlags(parts, 2, [limit |-> DefaultSendLimit, dry_run |-> TRUE,
                                  approved_only |-> TRUE, confirm |-> <<>>,
                                  err |-> <<>>])
    IN  IF parts = <<>> THEN {HErr(w, <<>>, Msg("Usage: outreach send"))}
        ELSE IF f.err # <<>> THEN {HErr(w, <<>>, f.err)}
        ELSE IF ~f.dry_run /\ Upper(Strip(f.confirm)) # SendWord
        THEN {HErr(w, <<>>, Msg("Refusing to send without --confirm SEND."))}
        ELSE IF parts[1] # OutboxName
        THEN {HErr(w, <<>>, Msg("Failed reading CSV"))}
        ELSE {LET pass == SendOutbox(w.outbox, f.limit, f.dry_run, f.approved_only,
                                     [i \in 1..Len(w.outbox) |-> smtp])
              IN  IF pass.kind = "err" THEN HErr(w, <<>>, pass.err)
                  ELSE HOk([w EXCEPT !.outbox = pass.file, !.mails = @ + pass.sent],
                           <<"Outbox processed", "file">>)
              : smtp \in SmtpOutcomes}

Sub ==
    [config |-> <<"c", "o", "n", "f", "i", "g">>,
     generate |-> <<"g", "e", "n", "e", "r", "a", "t", "e">>,
     draft |-> <<"d", "r", "a", "f", "t">>,
     list |-> <<"l", "i", "s", "t">>,
     approve |-> <<"a", "p", "p", "r", "o", "v", "e">>,
     housing |-> <<"h", "o", "u", "s", "i", "n", "g">>,
     hotel |-> <<"h", "o", "t", "e", "l">>,
     accommodation |-> <<"a", "c", "c", "o", "m", "m", "o", "d", "a", "t", "i", "o", "n">>]

\* _handle_outreach.  OutreachOps has no list_outbox and no approve_outbox.
HandleOutreach(w, args) ==
    LET raw == Strip(args)
        sub == Lower(Strip(BeforeSpace(raw)))
        rest == Strip(AfterSpace(raw))
        parts == Tokens(rest)
    IN  IF raw = <<>> \/ Lower(raw) = Cmd.help THEN {HOk(w, <<"Outreach ops">>)}
        ELSE IF sub = Sub.config THEN {HOk(w, <<"config">>)}
        ELSE IF sub = Sub.generate
        THEN IF Len(parts) < 2 THEN {HErr(w, <<>>, Msg("Usage: outreach generate"))}
             ELSE IF Lower(Strip(parts[1])) # Sub.housing
             THEN {HErr(w, <<>>, Msg("Only housing is supported right now."))}
             ELSE IF ~IsDigits(parts[2])
             THEN {HErr(w, <<>>, Msg("count must be a number"))}
             ELSE UNION {{IF h.kind = "ok"
                          THEN [h EXCEPT !.replies = @ \o <<"Leads written", "file">>]
                          ELSE h
                          : h \in GenerateHousingLeads(w, ToInt(parts[2]), found,
                                                       <<"Generating">>)}
                         : found \in SearchOutcomes}
        ELSE IF sub = Sub.draft
        THEN IF rest = <<>> THEN {HErr(w, <<>>, Msg("Usage: outreach draft"))}
             ELSE UNION {{IF h.kind = "ok"
                          THEN [h EXCEPT !.replies = Append(@, "file")] ELSE h
                          : h \in DraftHousingEmails(
                                      w, IF w.written.leads = 0 THEN "unreadable"
                                         ELSE leads, <<>>)}
                         : leads \in LeadsOutcomes}
        ELSE IF sub = Sub.list
        THEN IF parts = <<>> THEN {HErr(w, <<>>, Msg("Usage: outreach list"))}
             ELSE IF ~ListFlagsOk(parts, 2) THEN {HErr(w, <<>>, Msg("Unknown flag"))}
             ELSE {HExc(w, <<>>, Msg("AttributeError: list_outbox"))}
        ELSE IF sub = Sub.approve
        THEN IF parts = <<>> THEN {HErr(w, <<>>, Msg("Usage: outreach approve"))}
             ELSE IF ~ApproveFlagsOk(parts, 2) THEN {HErr(w, <<>>, Msg("Unknown flag"))}
             ELSE {HExc(w, <<>>, Msg("AttributeError: approve_outbox"))}
        ELSE IF sub = Lower(SendWord) THEN HandleOutreachSend(w, rest)
        ELSE {HErr(w, <<>>, Msg("Unknown outreach subcommand"))}

DefaultLeadCount == 50

\* _handle_do.  The pattern for the count asks for backslashes around the
\* digits, so with texts that have none the count stays the default.
HandleDo(w, args) ==
    LET text == Strip(args)
        lower == Lower(text)
    IN  IF text = <<>> THEN {HErr(w, <<>>, Msg("Usage: do <freeform request>"))}
        ELSE IF ~Contains(Sub.housing, lower) /\ ~Contains(Sub.hotel, lower)
                /\ ~Contains(Sub.accommodation, lower)
        THEN {HErr(w, <<>>, Msg("do only supports housing sponsor outreach"))}
        ELSE UNION {UNION {IF g.kind # "ok" THEN {g}
                           ELSE UNION {{IF d.kind = "ok"
                                        THEN [d EXCEPT !.replies =
                                                 <<"Running outreach pipeline", "Done.",
                                                   "file", "file">>]
                                        ELSE d
                                        : d \in DraftHousingEmails(g.world, leads,
                                                                   g.replies)}
                                       : leads \in LeadsOutcomes}
                           : g \in GenerateHousingLeads(w, DefaultLeadCount, found,
                                                        <<"Running outreach pipeline">>)}
                    : found \in SearchOutcomes}

\* _dispatch_command: the handler results, each with the handler that ran.
DispatchCommand(w, allowed_user_ids, author, command, args) ==
    LET cmd == Lower(Strip(command))
        handled ==
            CASE cmd \in {Cmd.show, Cmd.preview} -> HandleShow(w, args)
              [] cmd \in READ_COMMANDS \ {Cmd.show, Cmd.preview} -> {HOk(w, <<"text">>)}
              [] cmd = Cmd.task -> HandleTaskCreate(w, args, author)
              [] cmd = Cmd.plan -> HandleStep(w, args, "plan_task")
              [] cmd = Cmd.diff -> HandleStep(w, args, "patch_task")
              [] cmd = Cmd.apply -> HandleStep(w, args, "apply_task")
              [] cmd = Cmd.commit -> HandleCommit(w, args)
              [] cmd = Cmd.pr -> HandleStep(w, args, "publish_task")
              [] cmd = Cmd.run -> HandleRun(w, args)
              [] cmd = Cmd.merge -> HandleMerge(w, args)
              [] cmd = Cmd.deploy -> HandleDeploy(w, args)
              [] cmd = Cmd.ship -> HandleShip(w, args, author)
              [] cmd = Cmd.outreach -> HandleOutreach(w, args)
              [] cmd = Cmd.do -> HandleDo(w, args)
    IN  IF cmd \in MUTATING_COMMANDS /\ ~IsAllowedUser(allowed_user_ids, author)
        THEN {[world |-> w, replies |-> <<"Unauthorized">>, kind |-> "ok",
               err |-> <<>>, handler |-> <<>>]}
        ELSE IF cmd \in READ_COMMANDS \cup MUTATING_COMMANDS
        THEN {[world |-> h.world, replies |-> h.replies, kind |-> h.kind,
               err |-> h.err, handler |-> cmd] : h \in handled}
        ELSE {[world |-> w, replies |-> <<"Unknown command">>, kind |-> "ok",
               err |-> <<>>, handler |-> <<>>]}

\* An on_message that records no failure on the task the command names.
AfterCommandUnmarked(h, command, args) ==
    IF h.kind = "err"
    THEN [h EXCEPT !.replies = Append(@, "Command failed")]
    ELSE IF h.kind = "exc"
    THEN [h EXCEPT !.replies = Append(@, "Unhandled error")]
    ELSE h

\* The except clauses of on_message around one command: a domain error is
\* recorded on the task the command text names with a hash sign, if there is
\* one, and reported; any other exception is reported.
AfterCommand(h, command, args) ==
    LET ref == TaskRef(command \o <<" ">> \o args)
        marked == FailTaskBody(h.world.store, h.world.repo, ref.task_id, h.err)
    IN  IF h.kind = "err"
        THEN [h EXCEPT !.world.store = IF ref.found THEN marked.store ELSE @,
                       !.replies = Append(@, "Command failed")]
        ELSE IF h.kind = "exc"
        THEN [h EXCEPT !.replies = Append(@, "Unhandled error")]
        ELSE h

(***************************************************************************)
(* SpecBot: the gateway delivers messages one at a time; on_message takes  *)
(* the commands of a message one after the other.                          *)
(***************************************************************************)
Seen(kind, command, err, replies, handler) ==
    [kind |-> kind, command |-> command, err |-> err, replies |-> replies,
     handler |-> handler]

\* The lines of the messages delivered.
Contents ==
    {<<<<"!", "k", "i", "r", "o", "k", "u", " ", "p", "i", "n", "g">>>>,
     <<<<"!", "k", "i", "r", "o", "k", "u", " ", "s", "h", "o", "w", " ", "x", " ", "#", "1">>>>,
     <<<<"!", "k", "i", "r", "o", "k", "u", " ", "f", "o", "o">>>>,
     <<<<"!", "k", "i", "r", "o", "k", "u">>>>,
     <<<<"!", "k", "i", "r", "o", "k", "u", " ", "t", "a", "s", "k", " ", "a", " ", "|", "|", " ", "a">>>>,
     <<<<"!", "k", "i", "r", "o", "k", "u", " ", "t", "a", "s", "k", " ", "<", "a", ">", " ", "|", "|", " ", "a", " ", "#", "1">>>>,
     <<<<"!", "k", "i", "r", "o", "k", "u", " ", "t", "a", "s", "k", " ", "a", " ", "#", "1", " ", "|", "|">>>>,
     <<<<"!", "k", "i", "r", "o", "k", "u", " ", "T", "a", "s", "k", " ", "<", "a", ">">>>>,
     <<<<"!", "k", "i", "r", "o", "k", "u", " ", "p", "l", "a", "n", " ", "1">>>>,
     <<<<"!", "k", "i", "r", "o", "k", "u", " ", "d", "i", "f", "f", " ", "#", "1">>>>,
     <<<<"!", "k", "i", "r", "o", "k", "u", " ", "a", "p", "p", "l", "y", " ", "1">>>>,
     <<<<"!", "k", "i", "r", "o", "k", "u", " ", "c", "o", "m", "m", "i", "t", " ", "1", " ", "m">>>>,
     <<<<"!", "k", "i", "r", "o", "k", "u", " ", "p", "r", " ", "1">>>>,
     <<<<"!", "k", "i", "r", "o", "k", "u", " ", "r", "u", "n", " ", "1">>>>,
     <<<<"!", "k", "i", "r", "o", "k", "u", " ", "m", "e", "r", "g", "e", " ", "1">>>>,
     <<<<"!", "k", "i", "r", "o", "k", "u", " ", "d", "e", "p", "l", "o", "y", " ", "-", "-", "c", "o", "n", "f", "i", "r", "m", " ", "D", "E", "P", "L", "O", "Y">>>>,
     <<<<"!", "k", "i", "r", "o", "k", "u", " ", "d", "e", "p", "l", "o", "y", " ", "-", "-", "c", "o", "n", "f", "i", "r", "m", " ", "d", "e", "p", "l", "o", "y">>>>,
     <<<<"!", "k", "i", "r", "o", "k", "u", " ", "d", "e", "p", "l", "o", "y">>>>,
     <<<<"!", "k", "i", "r", "o", "k", "u", " ", "D", "E", "P", "L", "O", "Y", " ", "#", "1">>>>,
     <<<<"!", "k", "i", "r", "o", "k", "u", " ", "s", "h", "i", "p", " ", "a", " ", "|", "|", " ", "a", " ", "-", "-", "c", "o", "n", "f", "i", "r", "m", " ", "S", "H", "I", "P">>>>,
     <<<<"!", "k", "i", "r", "o", "k", "u", " ", "s", "h", "i", "p", " ", "#", "1">>>>,
     <<<<"!", "k", "i", "r", "o", "k", "u", " ", "s", "h", "i", "p", " ", "a", " ", "|", "|", " ", "a">>>>,
     <<<<"!", "k", "i", "r", "o", "k", "u", " ", "s", "h", "i", "p", " ", "#", "1", " ", "-", "-", "c", "o", "n", "f", "i", "r", "m", " ", "n", "o">>>>,
     <<<<"!", "k", "i", "r", "o", "k", "u", " ", "o", "u", "t", "r", "e", "a", "c", "h", " ", "s", "e", "n", "d", " ", "o", " ", "-", "-", "s", "e", "n", "d", " ", "-", "-", "c", "o", "n", "f", "i", "r", "m", " ", "S", "E", "N", "D">>>>,
     <<<<"!", "k", "i", "r", "o", "k", "u", " ", "o", "u", "t", "r", "e", "a", "c", "h", " ", "s", "e", "n", "d", " ", "o", " ", "-", "-", "s", "e", "n", "d">>>>,
     <<<<"!", "k", "i", "r", "o", "k", "u", " ", "o", "u", "t", "r", "e", "a", "c", "h", " ", "s", "e", "n", "d", " ", "o", "#", "1", " ", "-", "-", "s", "e", "n", "d", " ", "-", "-", "a", "l", "l">>>>,
     <<<<"!", "k", "i", "r", "o", "k", "u", " ", "o", "u", "t", "r", "e", "a", "c", "h", " ", "s", "e", "n", "d", " ", "o">>>>,
     <<<<"!", "k", "i", "r", "o", "k", "u", " ", "o", "u", "t", "r", "e", "a", "c", "h", " ", "l", "i", "s", "t", " ", "o">>>>,
     <<<<"!", "k", "i", "r", "o", "k", "u", " ", "o", "u", "t", "r", "e", "a", "c", "h", " ", "a", "p", "p", "r", "o", "v", "e", " ", "o", " ", "-", "-", "a", "l", "l">>>>,
     <<<<"!", "k", "i", "r", "o", "k", "u", " ", "o", "u", "t", "r", "e", "a", "c", "h", " ", "g", "e", "n", "e", "r", "a", "t", "e", " ", "h", "o", "u", "s", "i", "n", "g", " ", "5">>>>,
     <<<<"!", "k", "i", "r", "o", "k", "u", " ", "d", "o", " ", "x">>>>,
     <<<<"!", "k", "i", "r", "o", "k", "u", " ", "d", "o", " ", "l", "i", "s", "t", " ", "5", " ", "h", "o", "u", "s", "i", "n", "g", " ", "s", "p", "o", "n", "s", "o", "r", "s">>>>,
     <<<<"!", "k", "i", "r", "o", "k", "u", " ", "t", "a", "s", "k", " ", "a", " ", "|", "|", " ", "a">>,
      <<"!", "k", "i", "r", "o", "k", "u", " ", "s", "h", "i", "p", " ", "#", "1">>>>,
     <<<<"!", "k", "i", "r", "o", "k", "u", " ", "t", "a", "s", "k", " ", "a", " ", "|", "|", " ", "a">>,
      <<"!", "k", "i", "r", "o", "k", "u", " ", "r", "u", "n", " ", "1">>>>,
     <<<<"!", "k", "i", "r", "o", "k", "u", " ", "t", "a", "s", "k", " ", "a", " ", "|", "|", " ", "a">>,
      <<"!", "k", "i", "r", "o", "k", "u", " ", "p", "l", "a", "n", " ", "1">>>>,
     <<<<"!", "k", "i", "r", "o", "k", "u", " ", "t", "a", "s", "k", " ", "a", " ", "|", "|", " ", "a">>,
      <<"!", "k", "i", "r", "o", "k", "u", " ", "t", "a", "s", "k", " ", "<", "a", ">", " ", "|", "|", " ", "a", " ", "#", "1">>>>,
     <<<<"h", "e", "l", "l", "o">>,
      <<"!", "k", "i", "r", "o", "k", "u", " ", "p", "i", "n", "g">>>>,
     <<<<"!", "k", "i", "r", "o", "k", "u", " ", "d", "e", "p", "l", "o", "y", " ", "-", "-", "c", "o", "n", "f", "i", "r", "m", " ", "D", "E", "P", "L", "O", "Y">>,
      <<"!", "k", "i", "r", "o", "k", "u", " ", "t", "a", "s", "k", " ", "a", " ", "|", "|", " ", "a">>>>}

BotMessages ==
    [bot : {FALSE}, channel : {"c1", "c2"}, author : {"u1", "u2"}, lines : Contents]
    \cup [bot : {TRUE}, channel : {"c1"}, author : {"u1"},
          lines : {<<<<"!", "k", "i", "r", "o", "k", "u", " ", "t", "a", "s", "k", " ", "a", " ", "|", "|", " ", "a">>>>}]

AuthConfigs ==
    [admin_channel_ids : {{}, {"c1"}}, allowed_user_ids : {{}, {"u1"}}]

InitBot ==
    /\ InitOps
    /\ cfg.verify = FALSE
    /\ auth \in AuthConfigs

\* on_message up to the loop over the commands.
Receive(m) ==
    /\ todo = <<>>
    /\ msgs < MaxMsgs
    /\ msgs' = msgs + 1
    /\ msg' = m
    /\ IF m.bot \/ ~IsAdminChannel(auth.admin_channel_ids, m.channel)
       THEN /\ todo' = <<>>
            /\ seen' = Seen("ignored", <<>>, <<>>, <<>>, <<>>)
       ELSE /\ todo' = ParseLines(m.lines)
            /\ seen' = Seen("received", <<>>, <<>>, <<>>, <<>>)
    /\ UNCHANGED <<opsVars, auth, outbox, mails, restarts, written, outVars>>

\* A loop of on_message that a failed command ends.
CommandsLeftUntilFailure(commands, kind, restarted) ==
    {IF kind \in {"err", "exc"} THEN <<>> ELSE Tail(commands)} \cup
    (IF restarted THEN {<<>>} ELSE {})

\* The loop of on_message after one command, whatever its outcome: the
\* commands that follow are still to be dispatched, unless the restart the
\* command triggered ends the process first.
CommandsLeft(commands, kind, restarted) ==
    {Tail(commands)} \cup (IF restarted THEN {<<>>} ELSE {})

\* One turn of the loop of on_message: the next command is dispatched, run
\* and answered.  A restart the command triggered may end the loop.
Command ==
    /\ todo # <<>>
    /\ \E h \in DispatchCommand(World, auth.allowed_user_ids, msg.author,
                                Head(todo).command, Head(todo).args) :
          LET end == AfterCommand(h, Head(todo).command, Head(todo).args)
          IN  /\ store' = end.world.store
              /\ repo' = end.world.repo
              /\ outbox' = end.world.outbox
              /\ mails' = end.world.mails
              /\ restarts' = end.world.restarts
              /\ written' = end.world.written
              /\ seen' = Seen(end.kind, Head(todo).command, end.err, end.replies,
                              end.handler)
              /\ todo' \in CommandsLeft(todo, end.kind, end.world.restarts # restarts)
    /\ UNCHANGED <<cfg, lockHolder, waiters, pc, req, snap, last, calls,
                   createdIds, createFailed, maxInside, auth, msg, msgs, outVars>>

NextBot ==
    \/ \E m \in BotMessages : Receive(m)
    \/ Command

SpecBot == InitBot /\ [][NextBot]_vars

(***************************************************************************)
(* SpecShip: one message after the other, each of several command lines,   *)
(* from an allowed user in an admin channel: tasks made and taken through  *)
(* their steps, then run, merged, deployed or shipped.                     *)
(***************************************************************************)
ShipContents ==
    {<<<<"!", "k", "i", "r", "o", "k", "u", " ", "t", "a", "s", "k", " ", "a", " ", "|", "|", " ", "a">>,
       <<"!", "k", "i", "r", "o", "k", "u", " ", "d", "i", "f", "f", " ", "1">>,
       <<"!", "k", "i", "r", "o", "k", "u", " ", "a", "p", "p", "l", "y", " ", "1">>,
       <<"!", "k", "i", "r", "o", "k", "u", " ", "m", "e", "r", "g", "e", " ", "1">>>>,
     <<<<"!", "k", "i", "r", "o", "k", "u", " ", "t", "a", "s", "k", " ", "a", " ", "|", "|", " ", "a">>,
       <<"!", "k", "i", "r", "o", "k", "u", " ", "d", "i", "f", "f", " ", "1">>,
       <<"!", "k", "i", "r", "o", "k", "u", " ", "a", "p", "p", "l", "y", " ", "1">>,
       <<"!", "k", "i", "r", "o", "k", "u", " ", "d", "e", "p", "l", "o", "y", " ", "-", "-", "c", "o", "n", "f", "i", "r", "m", " ", "D", "E", "P", "L", "O", "Y">>>>,
     <<<<"!", "k", "i", "r", "o", "k", "u", " ", "t", "a", "s", "k", " ", "a", " ", "|", "|", " ", "a">>,
       <<"!", "k", "i", "r", "o", "k", "u", " ", "d", "i", "f", "f", " ", "1">>,
       <<"!", "k", "i", "r", "o", "k", "u", " ", "a", "p", "p", "l", "y", " ", "1">>,
       <<"!", "k", "i", "r", "o", "k", "u", " ", "s", "h", "i", "p", " ", "a", " ", "|", "|", " ", "a", " ", "-", "-", "c", "o", "n", "f", "i", "r", "m", " ", "S", "H", "I", "P">>>>,
     <<<<"!", "k", "i", "r", "o", "k", "u", " ", "t", "a", "s", "k", " ", "a", " ", "|", "|", " ", "a">>,
       <<"!", "k", "i", "r", "o", "k", "u", " ", "d", "i", "f", "f", " ", "1">>,
       <<"!", "k", "i", "r", "o", "k", "u", " ", "a", "p", "p", "l", "y", " ", "1">>,
       <<"!", "k", "i", "r", "o", "k", "u", " ", "s", "h", "i", "p", " ", "#", "1", " ", "-", "-", "c", "o", "n", "f", "i", "r", "m", " ", "S", "H", "I", "P">>>>,
     <<<<"!", "k", "i", "r", "o", "k", "u", " ", "t", "a", "s", "k", " ", "a", " ", "|", "|", " ", "a">>,
       <<"!", "k", "i", "r", "o", "k", "u", " ", "d", "i", "f", "f", " ", "1">>,
       <<"!", "k", "i", "r", "o", "k", "u", " ", "a", "p", "p", "l", "y", " ", "1">>,
       <<"!", "k", "i", "r", "o", "k", "u", " ", "m", "e", "r", "g", "e", " ", "#", "1">>>>,
     <<<<"!", "k", "i", "r", "o", "k", "u", " ", "t", "a", "s", "k", " ", "a", " ", "|", "|", " ", "a">>,
       <<"!", "k", "i", "r", "o", "k", "u", " ", "r", "u", "n", " ", "1">>>>,
     <<<<"!", "k", "i", "r", "o", "k", "u", " ", "t", "a", "s", "k", " ", "a", " ", "|", "|", " ", "a">>,
       <<"!", "k", "i", "r", "o", "k", "u", " ", "r", "u", "n", " ", "#", "1">>>>,
     <<<<"!", "k", "i", "r", "o", "k", "u", " ", "t", "a", "s", "k", " ", "a", " ", "|", "|", " ", "a">>,
       <<"!", "k", "i", "r", "o", "k", "u", " ", "s", "h", "i", "p", " ", "#", "1", " ", "-", "-", "c", "o", "n", "f", "i", "r", "m", " ", "S", "H", "I", "P">>>>,
     <<<<"!", "k", "i", "r", "o", "k", "u", " ", "t", "a", "s", "k", " ", "a", " ", "|", "|", " ", "a">>,
       <<"!", "k", "i", "r", "o", "k", "u", " ", "s", "h", "i", "p", " ", "1", " ", "-", "-", "c", "o", "n", "f", "i", "r", "m", " ", "S", "H", "I", "P">>>>,
     <<<<"!", "k", "i", "r", "o", "k", "u", " ", "s", "h", "i", "p", " ", "a", " ", "|", "|", " ", "a", " ", "-", "-", "c", "o", "n", "f", "i", "r", "m", " ", "S", "H", "I", "P">>>>,
     <<<<"!", "k", "i", "r", "o", "k", "u", " ", "t", "a", "s", "k", " ", "a", " ", "|", "|", " ", "a">>,
       <<"!", "k", "i", "r", "o", "k", "u", " ", "m", "e", "r", "g", "e", " ", "1">>,
       <<"!", "k", "i", "r", "o", "k", "u", " ", "p", "i", "n", "g">>>>,
     <<<<"!", "k", "i", "r", "o", "k", "u", " ", "d", "e", "p", "l", "o", "y", " ", "-", "-", "c", "o", "n", "f", "i", "r", "m", " ", "D", "E", "P", "L", "O", "Y">>,
       <<"!", "k", "i", "r", "o", "k", "u", " ", "p", "i", "n", "g">>>>,
     <<<<"!", "k", "i", "r", "o", "k", "u", " ", "p", "l", "a", "n", " ", "9">>,
       <<"!", "k", "i", "r", "o", "k", "u", " ", "f", "o", "o">>,
       <<"!", "k", "i", "r", "o", "k", "u", " ", "p", "i", "n", "g">>>>,
     <<<<"!", "k", "i", "r", "o", "k", "u", " ", "m", "e", "r", "g", "e", " ", "1">>,
       <<"!", "k", "i", "r", "o", "k", "u", " ", "s", "h", "o", "w", " ", "x", " ", "#", "1">>,
       <<"!", "k", "i", "r", "o", "k", "u", " ", "p", "i", "n", "g">>>>,
     <<<<"!", "k", "i", "r", "o", "k", "u", " ", "r", "u", "n", " ", "1">>>>}

ShipMessages == [bot : {FALSE}, channel : {"c1"}, author : {"u1"}, lines : ShipContents]

InitShip ==
    /\ InitOps
    /\ cfg.verify = FALSE
    /\ auth = [admin_channel_ids |-> {}, allowed_user_ids |-> {}]

NextShip ==
    \/ \E m \in ShipMessages : Receive(m)
    \/ Command

SpecShip == InitShip /\ [][NextShip]_vars

(***************************************************************************)
(* SpecAuth: the process started on a store of two tasks, with one allowed *)
(* user; messages come from that user and from another one.                *)
(***************************************************************************)
\* The store file left by two task commands of the allowed user.
TwoTaskStore ==
    [next_id |-> 3,
     tasks |-> <<NewTask(1, <<"a">>, <<"a">>, "u1"), NewTask(2, <<"b">>, <<"b">>, "u1")>>]

AuthContents ==
    {<<<<"!", "k", "i", "r", "o", "k", "u", " ", "h", "e", "l", "p">>>>,
     <<<<"!", "k", "i", "r", "o", "k", "u", " ", "s", "t", "a", "t", "u", "s">>>>,
     <<<<"!", "k", "i", "r", "o", "k", "u", " ", "t", "a", "s", "k", "s">>>>,
     <<<<"!", "k", "i", "r", "o", "k", "u", " ", "r", "e", "p", "o">>>>,
     <<<<"!", "k", "i", "r", "o", "k", "u", " ", "i", "d">>>>,
     <<<<"!", "k", "i", "r", "o", "k", "u", " ", "p", "i", "n", "g">>>>,
     <<<<"!", "k", "i", "r", "o", "k", "u", " ", "h", "e", "l", "p", " ", "#", "1">>>>,
     <<<<"!", "k", "i", "r", "o", "k", "u", " ", "s", "t", "a", "t", "u", "s", " ", "#", "2">>>>,
     <<<<"!", "k", "i", "r", "o", "k", "u", " ", "s", "h", "o", "w", " ", "1">>>>,
     <<<<"!", "k", "i", "r", "o", "k", "u", " ", "s", "h", "o", "w", " ", "#", "2">>>>,
     <<<<"!", "k", "i", "r", "o", "k", "u", " ", "s", "h", "o", "w", " ", "9">>>>,
     <<<<"!", "k", "i", "r", "o", "k", "u", " ", "s", "h", "o", "w", " ", "x", " ", "#", "1">>>>,
     <<<<"!", "k", "i", "r", "o", "k", "u", " ", "s", "h", "o", "w", " ", "9", " ", "#", "2">>>>,
     <<<<"!", "k", "i", "r", "o", "k", "u", " ", "p", "r", "e", "v", "i", "e", "w", " ", "1">>>>,
     <<<<"!", "k", "i", "r", "o", "k", "u", " ", "p", "r", "e", "v", "i", "e", "w", " ", "x", " ", "#", "2">>>>,
     <<<<"!", "k", "i", "r", "o", "k", "u", " ", "p", "l", "a", "n", " ", "1">>>>,
     <<<<"!", "k", "i", "r", "o", "k", "u", " ", "t", "a", "s", "k", " ", "b", " ", "|", "|", " ", "b">>>>,
     <<<<"!", "k", "i", "r", "o", "k", "u", " ", "t", "a", "s", "k", " ", "<", "b", ">", " ", "|", "|", " ", "b", " ", "#", "1">>>>,
     <<<<"!", "k", "i", "r", "o", "k", "u", " ", "c", "o", "m", "m", "i", "t", " ", "1", " ", "m">>>>,
     <<<<"!", "k", "i", "r", "o", "k", "u", " ", "c", "o", "m", "m", "i", "t", " ", "1", " ", "m", " ", "#", "2">>>>,
     <<<<"!", "k", "i", "r", "o", "k", "u", " ", "c", "o", "m", "m", "i", "t", " ", "x">>>>,
     <<<<"!", "k", "i", "r", "o", "k", "u", " ", "r", "u", "n", " ", "#", "1">>>>,
     <<<<"!", "k", "i", "r", "o", "k", "u", " ", "a", "p", "p", "l", "y", " ", "1">>>>,
     <<<<"!", "k", "i", "r", "o", "k", "u", " ", "p", "r", " ", "1">>>>,
     <<<<"!", "k", "i", "r", "o", "k", "u", " ", "d", "i", "f", "f", " ", "x", " ", "#", "2">>>>,
     <<<<"!", "k", "i", "r", "o", "k", "u", " ", "m", "e", "r", "g", "e", " ", "1">>>>,
     <<<<"!", "k", "i", "r", "o", "k", "u", " ", "s", "h", "o", "w", " ", "x", " ", "#", "1">>, <<"!", "k", "i", "r", "o", "k", "u", " ", "s", "h", "o", "w", " ", "2">>>>,
     <<<<"!", "k", "i", "r", "o", "k", "u", " ", "p", "l", "a", "n", " ", "2">>, <<"!", "k", "i", "r", "o", "k", "u", " ", "s", "h", "o", "w", " ", "x", " ", "#", "1">>, <<"!", "k", "i", "r", "o", "k", "u", " ", "p", "i", "n", "g">>>>}

AuthMessages ==
    [bot : {FALSE}, channel : {"c1"}, author : {"u1", "u2"}, lines : AuthContents]

InitAuth ==
    /\ InitButStore
    /\ store = TwoTaskStore
    /\ cfg.verify = FALSE
    /\ auth = [admin_channel_ids |-> {}, allowed_user_ids |-> {"u1"}]
    /\ outbox = InitOutbox
    /\ smtpConf = [send_enabled |-> TRUE, configured |-> TRUE]
    /\ sendLog = NoSend(Len(InitOutbox))
    /\ draft = NoDraft
    /\ sched = NoSched

NextAuth ==
    \/ \E m \in AuthMessages : Receive(m)
    \/ Command

SpecAuth == InitAuth /\ [][NextAuth]_vars

(***************************************************************************)
(* SpecRace: two coroutines, each taking its own task, which has a patch,  *)
(* through apply, commit and publish; the calls of the two interleave.     *)
(***************************************************************************)
\* The patch patch_task stores for a model answer with a fenced diff.
ValidPatch ==
    SanitizeDiffText(ExtractUnifiedDiff(
        <<Line.prose, Line.fence_diff, Line.diff_git, Line.index, Line.minus,
          Line.plus, Line.add, Line.fence>>))

\* The store file with two tasks that plan_task and patch_task have handled.
TwoPatchedStore ==
    [next_id |-> 3,
     tasks |-> [i \in 1..2 |->
                  [NewTask(i, <<"a">>, <<"a">>, "u1")
                      EXCEPT !.status = TASK_STATUS_PATCHED,
                             !.plan = "llm",
                             !.files = Prefix(SelectTracked(DefaultFiles), MaxContextFiles),
                             !.patch = ValidPatch]]]

InitRace ==
    /\ InitButStore
    /\ store = TwoPatchedStore
    /\ auth = [admin_channel_ids |-> {}, allowed_user_ids |-> {}]
    /\ outbox = InitOutbox
    /\ smtpConf = [send_enabled |-> TRUE, configured |-> TRUE]
    /\ sendLog = NoSend(Len(InitOutbox))
    /\ draft = NoDraft
    /\ sched = NoSched

\* The steps a coroutine takes on its task.
RaceRequests(p) ==
    {Req(op, Rank(p), <<>>, <<>>, <<>>) :
        op \in {"apply_task", "commit_task", "publish_task"}}

\* A coroutine calls a step of its task.  No step waits for a model, so the
\* lock is free at every call and the body runs to its end.
RaceCall(p, r) ==
    /\ calls < MaxCalls
    /\ calls' = calls + 1
    /\ pc[p] = "idle"
    /\ UNCHANGED <<cfg, botVars, outVars>>
    /\ IF LockFreeFor(p)
       THEN \E ext \in Outcomes(r.op) : Settle(p, r, Body(r, store, repo, ext))
       ELSE /\ pc' = [pc EXCEPT ![p] = "waiting"]
            /\ req' = [req EXCEPT ![p] = r]
            /\ waiters' = Append(waiters, p)
            /\ UNCHANGED <<store, repo, lockHolder, snap, last, createdIds,
                           createFailed, maxInside>>

NextRace == \E p \in Procs : \E r \in RaceRequests(p) : RaceCall(p, r)

SpecRace == InitRace /\ [][NextRace]_vars

(***************************************************************************)
(* SpecSend: send_outbox passes, one after the other, on one outbox file.  *)
(***************************************************************************)
OutboxRow(approved, sent_at, last_error) ==
    [to_email |-> <<"a", "@", "x">>, body |-> <<"b">>, approved |-> approved,
     sent_at |-> sent_at, last_error |-> last_error]

\* Rows as drafted, as edited by hand for approval, and as earlier passes
\* left them.
FileRows ==
    {OutboxRow(<<"y", "e", "s">>, <<>>, <<>>),
     OutboxRow(<<"n", "o">>, <<>>, <<>>),
     OutboxRow(<<"y", "e", "s">>, <<"t">>, <<>>),
     OutboxRow(<<" ", "Y", "e", "s", " ">>, <<>>, <<>>),
     OutboxRow(<<"y", "e", "s">>, <<>>, <<"e">>)}

\* Five rows, two of them approved and unsent, one sent already.
ExampleOutbox ==
    <<OutboxRow(<<"n", "o">>, <<>>, <<>>),
      OutboxRow(<<"y", "e", "s">>, <<>>, <<>>),
      OutboxRow(<<"y", "e", "s">>, <<"t">>, <<>>),
      OutboxRow(<<"n", "o">>, <<>>, <<>>),
      OutboxRow(<<"y", "e", "s">>, <<>>, <<>>)>>

Outboxes == UNION {[1..n -> FileRows] : n \in 0..MaxRows} \cup {ExampleOutbox}

SmtpConfs == [send_enabled : BOOLEAN, configured : BOOLEAN]

SendLimits == {0, 1, DefaultSendLimit}

\* The relay takes the mail, or refuses it with a text longer than a row keeps
\* (the short error texts are those of the two configuration checks).
RelayOutcomes == {"ok", "refused_long"}

InitSend ==
    /\ InitRest
    /\ cfg = [llm |-> FALSE, verify |-> FALSE]
    /\ auth = [admin_channel_ids |-> {}, allowed_user_ids |-> {}]
    /\ outbox \in Outboxes
    /\ smtpConf \in SmtpConfs
    /\ sendLog = NoSend(Len(outbox))
    /\ draft = NoDraft
    /\ sched = NoSched

\* One call of send_outbox; relay[i] is what the relay does with row i if it
\* is handed to it.
SendPass(limit, dry_run, approved_only, relay) ==
    /\ sendLog.passes < MaxPasses
    /\ \E smtp \in {[i \in 1..Len(outbox) |-> SmtpSend(smtpConf, relay[i])]} :
       \E res \in {SendOutbox(outbox, limit, dry_run, approved_only, smtp)} :
       \E accepted \in {{i \in res.contacted : relay[i] = "ok"}} :
           /\ outbox' = res.file
           /\ mails' = mails + Cardinality(accepted)
           /\ sendLog' = [passes |-> sendLog.passes + 1, limit |-> limit,
                          dry_run |-> dry_run, approved_only |-> approved_only,
                          outcome |-> [i \in 1..Len(outbox) |->
                                          IF i \in res.tried /\ ~dry_run
                                          THEN smtp[i] ELSE None],
                          kind |-> res.kind,
                          attempted |-> res.attempted, sent |-> res.sent,
                          tried |-> res.tried, contacted |-> res.contacted,
                          delivered |-> [i \in 1..Len(outbox) |->
                                            sendLog.delivered[i]
                                            + (IF i \in accepted THEN 1 ELSE 0)]]
    /\ UNCHANGED <<opsVars, auth, msg, todo, seen, restarts, written, msgs, smtpConf,
                   gen, draft, chan, sched>>

\* The relay's answers that can make a difference to a pass: a row that is
\* sent already, a dry run, or a configuration that _smtp_send refuses, never
\* gets to the relay, and "ok" stands for its answer there.
Relays(dry_run) ==
    {relay \in [1..Len(outbox) -> RelayOutcomes] :
        \A i \in 1..Len(outbox) :
            relay[i] # "ok" =>
                /\ ~dry_run
                /\ smtpConf.send_enabled /\ smtpConf.configured
                /\ Strip(outbox[i].sent_at) = <<>>}

NextSend ==
    \E limit \in SendLimits : \E dry_run \in BOOLEAN : \E approved_only \in BOOLEAN :
        \E relay \in Relays(dry_run) :
            SendPass(limit, dry_run, approved_only, relay)

SpecSend == InitSend /\ [][NextSend]_vars

(***************************************************************************)
(* SpecLeads: one call of generate_housing_leads, a step for each search   *)
(* it awaits.                                                              *)
(***************************************************************************)
\* The query templates, in the order they are issued.
Queries ==
    <<"{city} hotel corporate partnership",
      "{city} serviced apartment corporate rates",
      "{city} coliving spaces",
      "{city} business hotel chain",
      "{city} relocation services",
      "{country} hotel group partnerships",
      "{country} short stay apartments for business",
      "{country} travel management company partnerships">>

\* The text of s after the last at sign.
AfterLastAt(s) ==
    LET ats == {i \in 1..Len(s) : s[i] = "@"}
    IN  IF ats = {} THEN s ELSE Suffix(s, MaxOf(ats) + 1)

\* The text of s before the first colon.
BeforeColon(s) ==
    LET colons == {i \in 1..Len(s) : s[i] = ":"}
    IN  IF colons = {} THEN s ELSE Prefix(s, MinOf(colons) - 1)

WwwDot == <<"w", "w", "w", ".">>

\* _normalize_domain, on a link as urlparse splits it: the network location
\* (or, without one, the path), lower-cased, without user information, port
\* and a leading www.
NormalizeDomain(link) ==
    LET host == BeforeColon(AfterLastAt(Lower(Strip(IF link.netloc # <<>>
                                                    THEN link.netloc
                                                    ELSE link.path))))
    IN  IF Prefix(host, 4) = WwwDot THEN Suffix(host, 5) ELSE host

\* An inner loop that does not stop at the count.
RECURSIVE AddLeadsNoCap(_, _, _, _, _, _)
AddLeadsNoCap(results, i, leads, seen_domains, count, q) ==
    IF i > Len(results) THEN [leads |-> leads, seen_domains |-> seen_domains]
    ELSE LET domain == NormalizeDomain(results[i])
         IN  IF domain = <<>> \/ domain \in seen_domains
             THEN AddLeadsNoCap(results, i + 1, leads, seen_domains, count, q)
             ELSE AddLeadsNoCap(results, i + 1,
                                Append(leads, [domain |-> domain, source_query |-> q,
                                               source_url |-> results[i]]),
                                seen_domains \cup {domain}, count, q)

\* generate_housing_leads: the loop over the results of query q, from result
\* i on.
RECURSIVE AddLeads(_, _, _, _, _, _)
AddLeads(results, i, leads, seen_domains, count, q) ==
    IF i > Len(results) THEN [leads |-> leads, seen_domains |-> seen_domains]
    ELSE LET domain == NormalizeDomain(results[i])
             more == Append(leads, [domain |-> domain, source_query |-> q,
                                    source_url |-> results[i]])
         IN  IF domain = <<>> \/ domain \in seen_domains
             THEN AddLeads(results, i + 1, leads, seen_domains, count, q)
             ELSE IF Len(more) >= count
             THEN [leads |-> more, seen_domains |-> seen_domains \cup {domain}]
             ELSE AddLeads(results, i + 1, more, seen_domains \cup {domain}, count, q)

\* An outer loop that goes on while queries are left.
GenGoesOnAll(g) == Len(g.issued) < Len(Queries)

\* generate_housing_leads: whether the loop over the queries goes on.
GenGoesOn(g) == Len(g.issued) < Len(Queries) /\ Len(g.leads) < g.count

Link(netloc, path) == [netloc |-> netloc, path |-> path]

\* What a search returns: links to the same site written differently, to
\* other sites, and one without a host.
SearchResults ==
    {<<>>,
     <<Link(<<"w", "w", "w", ".", "a", ".", "j", "p">>, <<"/">>), Link(<<"A", ".", "j", "p", ":", "8", "0">>, <<>>), Link(<<"b", ".", "j", "p">>, <<>>)>>,
     <<Link(<<"u", "@", "B", ".", "j", "p">>, <<>>), Link(<<>>, <<>>), Link(<<>>, <<"c", ".", "j", "p", "/", "x">>)>>,
     <<Link(<<"a", ".", "j", "p">>, <<"/", "x">>)>>}

\* What a search answers: a status and, when it is a success, the results.
SearchAnswers ==
    {[status |-> 200, results |-> r] : r \in SearchResults}
        \cup {[status |-> 500, results |-> <<>>]}

SearchProviders == {"ok", "no_key", "unknown"}

\* _search_client: the error for a provider setting, none for a usable one.
SearchClientError(provider) ==
    IF provider = "no_key" THEN Msg("SERPAPI_API_KEY is missing.")
    ELSE IF provider = "unknown"
    THEN Msg("SEARCH_PROVIDER must be set to serpapi or bing.")
    ELSE <<>>

\* The call: the checks before the first query.
GenCall(count, provider) ==
    /\ gen.pc = "idle"
    /\ gen' = IF count <= 0
              THEN [gen EXCEPT !.pc = "failed", !.count = count,
                               !.err = Msg("count must be > 0")]
              ELSE IF SearchClientError(provider) # <<>>
              THEN [gen EXCEPT !.pc = "failed", !.count = count,
                               !.err = SearchClientError(provider)]
              ELSE [gen EXCEPT !.pc = "searching", !.count = count]
    /\ UNCHANGED <<opsVars, botVars, smtpConf, sendLog, draft, chan, sched>>

\* The next query is issued and answered: with results, or with an error
\* status that search raises.  After the last query the call goes on to the
\* enrichment, or fails for want of leads.
GenSearch(answer) ==
    /\ gen.pc = "searching"
    /\ LET qi == Len(gen.issued) + 1
           issued == [gen EXCEPT !.issued = Append(@, Queries[qi])]
       IN  IF answer.status >= 300
           THEN gen' = [issued EXCEPT !.pc = "failed",
                                     !.err = Msg("SerpAPI request failed")]
           ELSE \E got \in {AddLeads(answer.results, 1, gen.leads, gen.seen_domains,
                                      gen.count, Queries[qi])} :
                \E next \in {[issued EXCEPT !.answered = @ + 1,
                                            !.log = @ \o answer.results,
                                            !.leads = got.leads,
                                            !.seen_domains = got.seen_domains]} :
                    gen' = IF GenGoesOn(next) THEN next
                           ELSE IF next.leads = <<>>
                           THEN [next EXCEPT
                                    !.pc = "failed",
                                    !.err = Msg("No leads found from search results.")]
                           ELSE [next EXCEPT !.pc = "enriching"]
    /\ UNCHANGED <<opsVars, botVars, smtpConf, sendLog, draft, chan, sched>>

\* The enrichment is over and the leads file is written.
GenWrite ==
    /\ gen.pc = "enriching"
    /\ gen' = [gen EXCEPT !.pc = "done", !.file = gen.leads]
    /\ UNCHANGED <<opsVars, botVars, smtpConf, sendLog, draft, chan, sched>>

NextLeads ==
    \/ \E count \in 0..MaxCount : \E provider \in SearchProviders :
            GenCall(count, provider)
    \/ \E answer \in SearchAnswers : GenSearch(answer)
    \/ GenWrite

SpecLeads == InitApi /\ [][NextLeads]_vars

(***************************************************************************)
(* SpecDraft: one call of draft_housing_emails on a leads file and a       *)
(* template file.                                                          *)
(***************************************************************************)
\* Whether pat stands in s at place i.
StartsAt(pat, s, i) ==
    /\ i >= 1
    /\ i + Len(pat) - 1 <= Len(s)
    /\ SubSeq(s, i, i + Len(pat) - 1) = pat

\* Where the multi-line circumflex matches: at the start and after every
\* line feed.
LineStarts(s) == {i \in 1..(Len(s) + 1) : i = 1 \/ s[i - 1] = "\n"}

\* How many of the characters of s from place i on satisfy Ok, up to the
\* first that does not.
RunLen(s, i, Ok(_)) ==
    LET stops == {j \in i..Len(s) : ~Ok(s[j])}
    IN  IF i > Len(s) THEN 0
        ELSE IF stops = {} THEN Len(s) - i + 1 ELSE MinOf(stops) - i

IsLetterS(c) == c = "s"

\* The literal pieces of the pattern of _load_housing_template.  The pattern
\* is a raw string with doubled backslashes, so that each of its escapes is
\* a backslash to be found in the text, followed by what was escaped: the
\* letter s (any number of them where a star follows) and the letter n.
HousingHeader == <<"#", "#", " ", "T", "e", "m", "p", "l", "a", "t", "e", " ", "D", ":", " ", "H", "o", "u", "s", "i", "n", "g", " ", "P", "a", "r", "t", "n", "e", "r">>

SubjectMark == <<"S", "u", "b", "j", "e", "c", "t", ":", "\\">>

BlankMark == <<"\\", "n", "\\", "n">>

HeadingMark == <<"#", "#", "\\", "s">>

\* Where, from place from on, the lookahead of the pattern holds.
HeadingPlaces(text, from) ==
    {r \in LineStarts(text) : r >= from /\ StartsAt(HeadingMark, text, r)}

\* Where, from place from on, the subject group can end with the rest of the
\* pattern matching.
BlankPlaces(text, from) ==
    {e \in from..Len(text) :
        /\ StartsAt(BlankMark, text, e)
        /\ HeadingPlaces(text, e + Len(BlankMark)) # {}}

\* How many letters s the starred escape after the subject mark at place q
\* can take with the rest of the pattern matching.
SubjectSkips(text, q) ==
    {k \in 0..RunLen(text, q + Len(SubjectMark), IsLetterS) :
        BlankPlaces(text, q + Len(SubjectMark) + k) # {}}

\* Where, after a header at place p, the subject mark can stand with the
\* rest of the pattern matching.
SubjectPlaces(text, p) ==
    {q \in LineStarts(text) :
        /\ q >= p + Len(HousingHeader)
        /\ StartsAt(SubjectMark, text, q)
        /\ SubjectSkips(text, q) # {}}

\* Where the whole pattern matches.
HeaderPlaces(text) ==
    {p \in LineStarts(text) :
        StartsAt(HousingHeader, text, p) /\ SubjectPlaces(text, p) # {}}

\* OutreachOps._load_housing_template: re.search takes the first place at
\* which the pattern matches, the lazy groups as short and the starred
\* escape as long as a match allows.
LoadHousingTemplate(file) ==
    IF ~file.exists
    THEN [kind |-> "err",
          err |-> Msg("Missing template file: website/sponsorship_first_contact_emails.md")]
    ELSE IF HeaderPlaces(file.text) = {}
    THEN [kind |-> "err",
          err |-> Msg("Housing template not found in sponsorship_first_contact_emails.md.")]
    ELSE LET text == file.text
             p == MinOf(HeaderPlaces(text))
             q == MinOf(SubjectPlaces(text, p))
             a == q + Len(SubjectMark) + MaxOf(SubjectSkips(text, q))
             e == MinOf(BlankPlaces(text, a))
             r == MinOf(HeadingPlaces(text, e + Len(BlankMark)))
         IN  [kind |-> "ok",
              subject |-> Strip(SubSeq(text, a, e - 1)),
              body |-> Strip(SubSeq(text, e + Len(BlankMark), r - 1))]

\* The literal pieces of the pattern of _substitute, a raw string with
\* doubled backslashes as well.
TokenOpen == <<"\\", "{", "\\", "{", "\\">>

TokenClose == <<"\\", "}", "\\", "}">>

\* The match of the pattern of _substitute at place i of s, if there is one:
\* the key it captures and the place after it.
TokenAt(s, i) ==
    LET a == i + Len(TokenOpen)
        word == RunLen(s, a, IsWordChar)
        skip == RunLen(s, a, IsLetterS)
        k == IF skip < word THEN skip ELSE word - 1
        b == a + word
        c == b + 1 + RunLen(s, b + 1, IsLetterS)
    IN  IF /\ StartsAt(TokenOpen, s, i)
           /\ word >= 1
           /\ StartsAt(<<"\\">>, s, b)
           /\ StartsAt(TokenClose, s, c)
        THEN [found |-> TRUE, key |-> SubSeq(s, a + k, b - 1),
              next |-> c + Len(TokenClose)]
        ELSE [found |-> FALSE]

\* OutreachOps._substitute, from place i of text on: every match of the
\* pattern gives way to the value of its key, or to nothing.
RECURSIVE SubstituteFrom(_, _, _)
SubstituteFrom(text, i, values) ==
    IF i > Len(text) THEN <<>>
    ELSE LET m == TokenAt(text, i)
         IN  IF m.found
             THEN (IF m.key \in DOMAIN values THEN values[m.key] ELSE <<>>)
                      \o SubstituteFrom(text, m.next, values)
             ELSE <<text[i]>> \o SubstituteFrom(text, i + 1, values)

Substitute(text, values) == SubstituteFrom(text, 1, values)

\* The settings of OutreachOpsConfig that the values of a draft come from.
SenderConfig ==
    [sender_name |-> <<"K">>, sender_title |-> <<"T">>,
     sender_email |-> <<"k", "@", "k", ".", "j", "p">>, calendar_link |-> <<"c">>,
     sponsorship_page_url |-> <<"u">>, cohort_date_window |-> <<"d">>,
     cohort_city |-> <<"y">>]

\* draft_housing_emails: the values of the placeholders for one lead.
DraftValues(lead) ==
    (<<"f", "i", "r", "s", "t", "_", "n", "a", "m", "e">> :> <<"t", "h", "e", "r", "e">>)
        @@ (<<"t", "i", "t", "l", "e">> :> <<>>)
        @@ (<<"c", "o", "m", "p", "a", "n", "y">> :> lead.company)
        @@ (<<"t", "r", "a", "c", "k">> :> <<"H", "o", "u", "s", "i", "n", "g">>)
        @@ (<<"s", "e", "n", "d", "e", "r", "_", "n", "a", "m", "e">> :> SenderConfig.sender_name)
        @@ (<<"s", "e", "n", "d", "e", "r", "_", "t", "i", "t", "l", "e">> :> SenderConfig.sender_title)
        @@ (<<"s", "e", "n", "d", "e", "r", "_", "e", "m", "a", "i", "l">> :> SenderConfig.sender_email)
        @@ (<<"c", "a", "l", "e", "n", "d", "a", "r", "_", "l", "i", "n", "k">> :> SenderConfig.calendar_link)
        @@ (<<"s", "p", "o", "n", "s", "o", "r", "s", "h", "i", "p", "_", "p", "a", "g", "e", "_", "u", "r", "l">> :> SenderConfig.sponsorship_page_url)
        @@ (<<"c", "o", "h", "o", "r", "t", "_", "d", "a", "t", "e", "_", "w", "i", "n", "d", "o", "w">> :> SenderConfig.cohort_date_window)
        @@ (<<"c", "o", "h", "o", "r", "t", "_", "c", "i", "t", "y">> :> SenderConfig.cohort_city)

\* draft_housing_emails: the loop over the leads, from lead i on.
RECURSIVE DraftRows(_, _, _, _)
DraftRows(leads, i, subject_t, body_t) ==
    IF i > Len(leads) THEN <<>>
    ELSE IF leads[i].contact_email = <<>>
    THEN DraftRows(leads, i + 1, subject_t, body_t)
    ELSE <<[company |-> leads[i].company, domain |-> leads[i].domain,
            to_email |-> leads[i].contact_email,
            subject |-> Strip(Substitute(subject_t, DraftValues(leads[i]))),
            body |-> Strip(Substitute(body_t, DraftValues(leads[i]))),
            approved |-> <<"n", "o">>, sent_at |-> <<>>, last_error |-> <<>>]>>
             \o DraftRows(leads, i + 1, subject_t, body_t)

\* OutreachOps.draft_housing_emails on a leads file and a template file.
DraftHousingEmailsOn(leads_csv, template) ==
    IF ~leads_csv.readable THEN [kind |-> "err", err |-> Msg("Failed reading CSV")]
    ELSE LET leads == ReadCsv(leads_csv.rows)
             t == LoadHousingTemplate(template)
         IN  IF t.kind = "err" THEN t
             ELSE IF DraftRows(leads, 1, t.subject, t.body) = <<>>
             THEN [kind |-> "err",
                   err |-> Msg("No draftable leads found (missing contact_email).")]
             ELSE [kind |-> "ok",
                   outbox |-> DraftRows(leads, 1, t.subject, t.body)]

LeadRow(company, domain, contact_email) ==
    [company |-> company, domain |-> domain, contact_email |-> contact_email]

\* The rows a leads file is made of: with an address, without one, with a
\* blank one, and with padding around the company.
LeadRows ==
    {LeadRow(<<"A">>, <<"a", ".", "j", "p">>, <<"a", "@", "a", ".", "j", "p">>),
     LeadRow(<<"B">>, <<"b", ".", "j", "p">>, <<>>),
     LeadRow(<<"C">>, <<"c", ".", "j", "p">>, <<" ">>),
     LeadRow(<<" ", "D">>, <<"d", ".", "j", "p">>, <<"d", "@", "d", ".", "j", "p">>)}

LeadFiles ==
    {[readable |-> TRUE, rows |-> r] :
        r \in UNION {[1..n -> LeadRows] : n \in 0..MaxLeads}}
        \cup {[readable |-> FALSE, rows |-> <<>>]}

\* A template file as the specification describes it: the section header, a
\* Subject line, a blank line, the body, the next heading.
ConformingTemplate ==
    <<"#", " ", "P", "a", "c", "k", "\n", "#", "#", " ", "T", "e", "m", "p",
      "l", "a", "t", "e", " ", "D", ":", " ", "H", "o", "u", "s", "i", "n",
      "g", " ", "P", "a", "r", "t", "n", "e", "r", "\n", "S", "u", "b", "j",
      "e", "c", "t", ":", " ", "S", "t", "a", "y", " ", "a", "t", " ", "{",
      "{", "c", "o", "m", "p", "a", "n", "y", "}", "}", "\n", "\n", "H", "i",
      " ", "{", "{", "f", "i", "r", "s", "t", "_", "n", "a", "m", "e", "}",
      "}", ",", "\n", "{", "{", "s", "e", "n", "d", "e", "r", "_", "n", "a",
      "m", "e", "}", "}", "\n", "\n", "#", "#", " ", "T", "e", "m", "p", "l",
      "a", "t", "e", " ", "E", "\n">>

\* The same without placeholders.
PlainTemplate ==
    <<"#", "#", " ", "T", "e", "m", "p", "l", "a", "t", "e", " ", "D", ":",
      " ", "H", "o", "u", "s", "i", "n", "g", " ", "P", "a", "r", "t", "n",
      "e", "r", "\n", "S", "u", "b", "j", "e", "c", "t", ":", " ", "H", "i",
      "\n", "\n", "B", "o", "d", "y", "\n", "#", "#", " ", "E", "\n">>

\* A file in which the backslashes that the patterns look for are written
\* out.
EscapedTemplate ==
    <<"#", "#", " ", "T", "e", "m", "p", "l", "a", "t", "e", " ", "D", ":",
      " ", "H", "o", "u", "s", "i", "n", "g", " ", "P", "a", "r", "t", "n",
      "e", "r", "\n", "S", "u", "b", "j", "e", "c", "t", ":", "\\", "s", "s",
      " ", "a", "t", " ", "\\", "{", "\\", "{", "\\", "c", "o", "m", "p",
      "a", "n", "y", "\\", "\\", "}", "\\", "}", "\\", "n", "\\", "n", "H",
      "i", " ", "\\", "{", "\\", "{", "\\", "s", "e", "n", "d", "e", "r",
      "_", "n", "a", "m", "e", "\\", "\\", "}", "\\", "}", "\n", "#", "#",
      "\\", "s">>

\* A file without the section.
OtherTemplate ==
    <<"#", "#", " ", "T", "e", "m", "p", "l", "a", "t", "e", " ", "A", ":",
      " ", "S", "p", "o", "n", "s", "o", "r", "\n", "S", "u", "b", "j", "e",
      "c", "t", ":", " ", "H", "i", "\n", "\n", "B", "o", "d", "y", "\n",
      "#", "#", " ", "B", "\n">>

TemplateFiles ==
    {[exists |-> TRUE, text |-> t] :
        t \in {ConformingTemplate, PlainTemplate, EscapedTemplate, OtherTemplate}}
        \cup {[exists |-> FALSE, text |-> <<>>]}

InitDraft ==
    /\ InitRest
    /\ cfg = [llm |-> FALSE, verify |-> FALSE]
    /\ auth = [admin_channel_ids |-> {}, allowed_user_ids |-> {}]
    /\ outbox = InitOutbox
    /\ smtpConf = [send_enabled |-> TRUE, configured |-> TRUE]
    /\ sendLog = NoSend(Len(InitOutbox))
    /\ \E l \in LeadFiles : \E t \in TemplateFiles :
           draft = [NoDraft EXCEPT !.leads = l, !.template = t]
    /\ sched = NoSched

\* The call, from reading the leads file to writing the outbox file.
DraftCall ==
    /\ draft.pc = "idle"
    /\ \E res \in {DraftHousingEmailsOn(draft.leads, draft.template)} :
           draft' = IF res.kind = "err"
                    THEN [draft EXCEPT !.pc = "failed", !.err = res.err]
                    ELSE [draft EXCEPT !.pc = "done", !.outbox = res.outbox]
    /\ UNCHANGED <<opsVars, botVars, smtpConf, sendLog, gen, chan, sched>>

NextDraft == DraftCall

SpecDraft == InitDraft /\ [][NextDraft]_vars

(***************************************************************************)
(* SpecChunks: one call of _send_chunks on a reply text; the channel takes *)
(* the messages one at a time.                                             *)
(***************************************************************************)
ChunkSize == 1800

EmptyReply == <<"(", "e", "m", "p", "t", "y", ")">>

\* data[i:j] of Python, for 0 <= i <= j.
Slice(data, i, j) == SubSeq(data, i + 1, IF j < Len(data) THEN j ELSE Len(data))

\* _send_chunks: the slices of the list comprehension, for the values of
\* range(0, len(data), chunk_size) from i on.
RECURSIVE ChunksFrom(_, _)
ChunksFrom(data, i) ==
    IF i >= Len(data) THEN <<>>
    ELSE <<Slice(data, i, i + ChunkSize)>> \o ChunksFrom(data, i + ChunkSize)

\* A _send_chunks that cuts the text as it is given.
SendChunksUnstripped(text) ==
    ChunksFrom(IF text = <<>> THEN EmptyReply ELSE text, 0)

\* _send_chunks: the messages to send, in order.
SendChunks(text) ==
    LET stripped == Strip(text)
    IN  ChunksFrom(IF stripped = <<>> THEN EmptyReply ELSE stripped, 0)

\* The most chunks of full size a reply text is made of.
MaxChunks == 3

ReplyLetters == <<"a", "b", "c", "d", "e", "f", "g">>

\* A reply body of n characters, with spaces inside it, whose characters
\* change with their place.
ReplyBody(n) ==
    [i \in 1..n |-> IF i % 7 = 0 /\ i < n THEN " " ELSE ReplyLetters[(i % 7) + 1]]

ReplyLengths ==
    {0, 1, 5000} \cup {k * ChunkSize + d : k \in 1..MaxChunks, d \in {-1, 0, 1}}

\* The reply texts: bodies with and without whitespace around them.
ReplyTexts ==
    {lead \o ReplyBody(n) \o trail :
        n \in ReplyLengths,
        lead \in {<<>>, <<" ">>, <<"\n", " ">>},
        trail \in {<<>>, <<"\n">>, <<" ", "\t">>}}

InitChunks ==
    /\ InitOps
    /\ cfg = [llm |-> FALSE, verify |-> FALSE]
    /\ auth = [admin_channel_ids |-> {}, allowed_user_ids |-> {}]

\* _send_chunks up to the loop over the parts.
SendChunksCall(text) ==
    /\ chan.pc = "idle"
    /\ chan' = [pc |-> "sending", text |-> text, parts |-> SendChunks(text),
                sent |-> <<>>]
    /\ UNCHANGED <<opsVars, botVars, smtpConf, sendLog, gen, draft, sched>>

\* One turn of the loop of _send_chunks: channel.send of the next part.
ChannelSend ==
    /\ chan.pc = "sending"
    /\ chan' = [chan EXCEPT !.sent = Append(@, Head(chan.parts)),
                            !.parts = Tail(@),
                            !.pc = IF Tail(chan.parts) = <<>> THEN "done" ELSE @]
    /\ UNCHANGED <<opsVars, botVars, smtpConf, sendLog, gen, draft, sched>>

NextChunks ==
    \/ \E text \in ReplyTexts : SendChunksCall(text)
    \/ ChannelSend

SpecChunks == InitChunks /\ [][NextChunks]_vars

(***************************************************************************)
(* SpecWeekly: the gateway fires the ready event, at the first connection  *)
(* and at reconnections; the scheduler, once running, fires its jobs every *)
(* week.                                                                   *)
(***************************************************************************)
\* The most ready events, and the most weeks the scheduler runs.
MaxReady == 4
MaxWeeks == 6

WeeklyJob == "weekly_events"

\* scheduler.add_job(..., id=id, replace_existing=True): a job of that id
\* takes the place of the one registered before.
AddJob(jobs, id) == Append(SelectSeq(jobs, LAMBDA j : j # id), id)

\* An on_ready that does not look whether the scheduler is running.
StartsSchedulerAlways(s) ==
    s.weekly_schedule_enabled /\ s.weekly_channel_id # 0

\* on_ready: the test before the job is registered and the scheduler started.
StartsScheduler(s) ==
    s.weekly_schedule_enabled /\ s.weekly_channel_id # 0 /\ ~s.running

\* load_config: the weekly channel, 0 for none, and the enable flag.
WeeklyConfigs ==
    {[NoSched EXCEPT !.weekly_schedule_enabled = e, !.weekly_channel_id = c] :
        e \in BOOLEAN, c \in {0, 7}}

InitWeekly ==
    /\ InitRest
    /\ cfg = [llm |-> FALSE, verify |-> FALSE]
    /\ auth = [admin_channel_ids |-> {}, allowed_user_ids |-> {}]
    /\ outbox = InitOutbox
    /\ smtpConf = [send_enabled |-> TRUE, configured |-> TRUE]
    /\ sendLog = NoSend(Len(InitOutbox))
    /\ draft = NoDraft
    /\ sched \in WeeklyConfigs

\* on_ready
OnReady ==
    /\ sched.readies < MaxReady
    /\ sched' = IF StartsScheduler(sched)
                THEN [sched EXCEPT !.readies = @ + 1,
                                   !.jobs = AddJob(@, WeeklyJob),
                                   !.running = TRUE,
                                   !.starts = @ + 1]
                ELSE [sched EXCEPT !.readies = @ + 1]
    /\ UNCHANGED <<opsVars, botVars, smtpConf, sendLog, gen, draft, chan>>

\* post_weekly_update: the announcements sent, with the channel found or not.
PostWeeklyUpdate(s, found) ==
    IF s.weekly_channel_id = 0 \/ ~found THEN 0 ELSE 1

\* Monday at nine: the running scheduler calls every job registered.
WeeklyFiring ==
    /\ sched.running
    /\ sched.weeks < MaxWeeks
    /\ \E found \in BOOLEAN :
          sched' = [sched EXCEPT !.weeks = @ + 1,
                                 !.posts = @ + Len(sched.jobs)
                                               * PostWeeklyUpdate(sched, found)]
    /\ UNCHANGED <<opsVars, botVars, smtpConf, sendLog, gen, draft, chan>>

NextWeekly ==
    \/ OnReady
    \/ WeeklyFiring

SpecWeekly == InitWeekly /\ [][NextWeekly]_vars

(***************************************************************************)
(* Properties of the CodeOps engine.                                       *)
(***************************************************************************)
WorkflowOps == {"plan_task", "patch_task", "apply_task", "commit_task", "publish_task"}

\* The status each workflow operation sets.
StepStatus(op) ==
    CASE op = "plan_task" -> TASK_STATUS_PLANNED
      [] op = "patch_task" -> TASK_STATUS_PATCHED
      [] op = "apply_task" -> TASK_STATUS_APPLIED
      [] op = "commit_task" -> TASK_STATUS_COMMITTED
      [] op = "publish_task" -> TASK_STATUS_PUBLISHED

\* C1: as long as every create_task call has succeeded, the ids returned so
\* far, in the order of return, are 1, 2, ..., N: no gap and no repeat, also
\* when a call was issued while another operation held the lock.
C1_IdsAreOneToN ==
    ~createFailed => createdIds = [i \in 1..Len(createdIds) |-> i]

\* Two tasks created, the second by a call that had queued behind a suspended
\* operation.
C1_Witness ==
    /\ ~createFailed
    /\ Len(createdIds) = 2
    /\ last.op = "create_task" /\ last.kind = "ok" /\ last.queued

\* C2: never more than one operation body is in progress: while plan_task or
\* patch_task is suspended on the model request it holds the lock, no other
\* body has run next to it, and every other caller is queued.
C2_OneOperationAtATime ==
    /\ maxInside <= 1
    /\ Cardinality(Inside) <= 1
    /\ \A p \in Inside : lockHolder = p

\* patch_task is suspended on the model while a call on another id waits.
C2_Witness ==
    \E p \in Procs, q \in Procs :
        /\ pc[p] \in {"patch_llm1", "patch_llm2"}
        /\ pc[q] = "waiting"
        /\ req[q].op \in WorkflowOps \cup {"fail_task", "get_task"}
        /\ req[q].task_id # req[p].task_id

\* C6: the task create_task returns is stored with status new and branch
\* codex/task-{id}; after plan_task, patch_task, apply_task, commit_task or
\* publish_task returned a task, the stored task with the id asked for has
\* status planned, patched, applied, committed or published.
C6_StatusAfterStep ==
    /\ last.op = "create_task" /\ last.kind = "ok" =>
          /\ last.task.status = TASK_STATUS_NEW
          /\ last.task.branch = <<"codex/task-", last.task.task_id>>
          /\ TaskExists(store, last.task.task_id)
          /\ GetTaskUnlocked(store, last.task.task_id) = last.task
    /\ last.op \in WorkflowOps /\ last.kind = "ok" =>
          /\ last.task.task_id = last.task_id
          /\ TaskExists(store, last.task_id)
          /\ GetTaskUnlocked(store, last.task_id).status = StepStatus(last.op)
          /\ last.task.status = StepStatus(last.op)

\* publish_task has just returned for a task that went through every step.
C6_Witness ==
    /\ last.op = "publish_task" /\ last.kind = "ok"
    /\ GetTaskUnlocked(store, last.task_id).status = TASK_STATUS_PUBLISHED
    /\ GetTaskUnlocked(store, last.task_id).commit_sha # <<>>
    /\ GetTaskUnlocked(store, last.task_id).plan # ""

\* The place of a status in the workflow order; failed has none.
StatusRank(status) ==
    CASE status = TASK_STATUS_NEW -> 1
      [] status = TASK_STATUS_PLANNED -> 2
      [] status = TASK_STATUS_PATCHED -> 3
      [] status = TASK_STATUS_APPLIED -> 4
      [] status = TASK_STATUS_COMMITTED -> 5
      [] status = TASK_STATUS_PUBLISHED -> 6
      [] OTHER -> 0

\* C7 as stated: a status changes only to failed, or from one status to the
\* next of new, planned, patched, applied, committed, published (a change
\* out of failed is left open).
C7_LinearWorkflow ==
    [][\A i \in 1..Len(store.tasks) :
          LET a == store.tasks[i].status
              b == store'.tasks[i].status
          IN  \/ a = b
              \/ b = TASK_STATUS_FAILED
              \/ a = TASK_STATUS_FAILED
              \/ StatusRank(b) = StatusRank(a) + 1]_vars

\* C7, amended: the status of a stored task changes only in a step in which
\* an operation on that task returns a task, and then to the status of that
\* operation (planned, patched, applied, committed, published, or failed for
\* fail_task), whatever the status was before.
C7_StatusSetByStep ==
    [][\A i \in 1..Len(store.tasks) :
          store'.tasks[i].status # store.tasks[i].status =>
              /\ last'.flip # last.flip
              /\ last'.kind = "ok"
              /\ last'.task_id = store.tasks[i].task_id
              /\ \/ last'.op = "fail_task" /\
                        store'.tasks[i].status = TASK_STATUS_FAILED
                 \/ last'.op \in WorkflowOps /\
                        store'.tasks[i].status = StepStatus(last'.op)]_vars

\* plan_task has just returned for a task that has a commit: the task went
\* from committed or later back to planned.
C7_Witness ==
    /\ last.op = "plan_task" /\ last.kind = "ok"
    /\ last.task.commit_sha # <<>>
    /\ GetTaskUnlocked(store, last.task_id).status = TASK_STATUS_PLANNED

\* C8: a fail_task call on a stored id returns with that task failed and its
\* last_error the first 2000 characters of the error, every other field of
\* the task, every other task and next_id as before; on an id not stored it
\* raises not-found and the store is as before.
C8_FailTask ==
    [][last'.flip # last.flip /\ last'.op = "fail_task" =>
          IF TaskExists(store, last'.task_id)
          THEN LET i == MinOf(TaskIndexes(store, last'.task_id))
               IN  /\ last'.kind = "ok"
                   /\ store' = [store EXCEPT
                         !.tasks[i].status = "failed",
                         !.tasks[i].last_error =
                            SubSeq(last'.error, 1,
                                   IF Len(last'.error) < 2000
                                   THEN Len(last'.error) ELSE 2000)]
          ELSE /\ last'.kind = "err"
               /\ last'.err = <<"Task not found.">>
               /\ store' = store]_vars

\* fail_task has cut an error text of more than 2000 characters on the first
\* of two stored tasks.
C8_Witness ==
    /\ last.op = "fail_task" /\ last.kind = "ok"
    /\ Len(last.error) > 2000
    /\ Len(store.tasks) = 2
    /\ store.tasks[1].status = TASK_STATUS_FAILED
    /\ Len(store.tasks[1].last_error) = 2000

\* C10 as stated: no stored task has an empty title, empty instructions, or
\* a title or instructions that is a single bracketed placeholder.
C10_NoInvalidTaskStored ==
    \A i \in 1..Len(store.tasks) :
        /\ store.tasks[i].title # <<>>
        /\ store.tasks[i].instructions # <<>>
        /\ ~IsPlaceholder(store.tasks[i].title)
        /\ ~IsPlaceholder(store.tasks[i].instructions)

(***************************************************************************)
(* Properties of the dispatcher.  In a step that takes a command, the      *)
(* command is Head(todo) and the message it came in is msg.                 *)
(***************************************************************************)
\* C3: a command of the mutating set (task, plan, diff, apply, commit, pr,
\* run, merge, deploy, ship, outreach, do) from an eligible channel has its
\* handler run when the allowed-user set is empty; when the set is not empty
\* and the author is not in it, the only reply is the Unauthorized one, no
\* handler runs, and the task store, the repository, the outbox file, the
\* mail delivered, the restarts and the files written are as before.
C3_Authorization ==
    [][todo # <<>> /\ todo' # todo
       /\ Lower(Strip(Head(todo).command)) \in
             {Cmd.task, Cmd.plan, Cmd.diff, Cmd.apply, Cmd.commit, Cmd.pr, Cmd.run,
              Cmd.merge, Cmd.deploy, Cmd.ship, Cmd.outreach, Cmd.do}
       => IF auth.allowed_user_ids = {}
          THEN seen'.handler = Lower(Strip(Head(todo).command))
          ELSE msg.author \notin auth.allowed_user_ids =>
                  /\ seen'.replies = <<"Unauthorized">>
                  /\ seen'.handler = <<>>
                  /\ UNCHANGED <<store, repo, outbox, mails, restarts, written>>]_vars

\* An outreach command of a user outside a non-empty allowed-user set has
\* been answered Unauthorized.
C3_Witness ==
    /\ auth.allowed_user_ids # {}
    /\ msg.author \notin auth.allowed_user_ids
    /\ IsAdminChannel(auth.admin_channel_ids, msg.channel)
    /\ seen.command = Cmd.outreach
    /\ seen.replies = <<"Unauthorized">>

\* C4 as stated: deploy without the words --confirm DEPLOY, ship without
\* --confirm SHIP, and outreach send with --send (and no --dry-run) but
\* without --confirm SEND, from an author who may run them, end in an error
\* and leave the repository, the task store, the restarts, the mail
\* delivered, the outbox file and the files written as before.
C4_RefusedChangesNothing ==
    [][LET cmd == Lower(Strip(Head(todo).command))
           parts == Tokens(Head(todo).args)
           confirmed(word) ==
               \E i \in 1..(Len(parts) - 1) :
                   parts[i] = ConfirmFlag /\ Upper(parts[i + 1]) = word
           has(flag) == \E i \in 1..Len(parts) : parts[i] = flag
       IN  /\ todo # <<>> /\ todo' # todo
           /\ auth.allowed_user_ids = {} \/ msg.author \in auth.allowed_user_ids
           /\ \/ cmd = Cmd.deploy /\ ~confirmed(DeployWord)
              \/ cmd = Cmd.ship /\ ~confirmed(ShipWord)
              \/ /\ cmd = Cmd.outreach
                 /\ parts # <<>> /\ Lower(parts[1]) = Lower(SendWord)
                 /\ has(Flag.send) /\ ~has(Flag.dry_run) /\ ~confirmed(SendWord)
       => /\ seen'.kind = "err"
          /\ UNCHANGED <<store, repo, outbox, mails, restarts, written>>]_vars

\* C4, amended: such a command ends in an error, runs no git command,
\* creates no task, triggers no restart, delivers no mail and leaves the
\* outbox file and the files written as before; the task store changes in
\* one way only: when the text of the command holds a hash sign followed by
\* digits, the stored task with that number is marked failed, with the error
\* message as its last_error.
C4_RefusedOnlyMarksNamedTask ==
    [][LET cmd == Lower(Strip(Head(todo).command))
           parts == Tokens(Head(todo).args)
           confirmed(word) ==
               \E i \in 1..(Len(parts) - 1) :
                   parts[i] = ConfirmFlag /\ Upper(parts[i + 1]) = word
           has(flag) == \E i \in 1..Len(parts) : parts[i] = flag
           ref == TaskRef(Head(todo).command \o <<" ">> \o Head(todo).args)
       IN  /\ todo # <<>> /\ todo' # todo
           /\ auth.allowed_user_ids = {} \/ msg.author \in auth.allowed_user_ids
           /\ \/ cmd = Cmd.deploy /\ ~confirmed(DeployWord)
              \/ cmd = Cmd.ship /\ ~confirmed(ShipWord)
              \/ /\ cmd = Cmd.outreach
                 /\ parts # <<>> /\ Lower(parts[1]) = Lower(SendWord)
                 /\ has(Flag.send) /\ ~has(Flag.dry_run) /\ ~confirmed(SendWord)
       => /\ seen'.kind = "err"
          /\ UNCHANGED <<repo, outbox, mails, restarts, written>>
          /\ store'.next_id = store.next_id
          /\ Len(store'.tasks) = Len(store.tasks)
          /\ \A i \in 1..Len(store.tasks) :
                \/ store'.tasks[i] = store.tasks[i]
                \/ /\ ref.found
                   /\ store.tasks[i].task_id = ref.task_id
                   /\ store'.tasks[i] =
                         [store.tasks[i] EXCEPT !.status = "failed",
                                                !.last_error = seen'.err]]_vars

\* ship without the confirmation has been refused, and the task its text
\* names is now failed with the refusal as its last_error.
C4_Witness ==
    /\ seen.command = Cmd.ship
    /\ seen.kind = "err"
    /\ seen.err = ShipRefused
    /\ seen.replies = <<"Command failed">>
    /\ TaskExists(store, 1)
    /\ GetTaskUnlocked(store, 1).status = TASK_STATUS_FAILED
    /\ GetTaskUnlocked(store, 1).last_error = ShipRefused

\* C5: a message of a bot account, or of a channel outside a non-empty
\* admin-channel set, leaves no command to run, gets no reply and changes
\* nothing; with an empty admin-channel set the commands of a message of a
\* user in any channel are taken up.
C5_IgnoredMessages ==
    [][msgs' # msgs =>
          /\ msg'.bot \/ (auth.admin_channel_ids # {}
                          /\ msg'.channel \notin auth.admin_channel_ids) =>
                /\ todo' = <<>>
                /\ seen'.kind = "ignored"
                /\ seen'.replies = <<>>
                /\ UNCHANGED <<store, repo, outbox, mails, restarts, written>>
          /\ ~msg'.bot /\ auth.admin_channel_ids = {} =>
                /\ seen'.kind = "received"
                /\ todo' = ParseLines(msg'.lines)]_vars

\* A message of a user with a command in it has been ignored for its channel.
C5_Witness ==
    /\ seen.kind = "ignored"
    /\ ~msg.bot
    /\ auth.admin_channel_ids # {}
    /\ msg.channel \notin auth.admin_channel_ids
    /\ ParseLines(msg.lines) # <<>>
    /\ todo = <<>>

PassStep == sendLog'.passes # sendLog.passes

\* The rows of a file a pass may attempt: unsent and, under approved-only,
\* approved.
Eligible(file, approved_only) ==
    {i \in 1..Len(file) :
        /\ file[i].sent_at = <<>>
        /\ approved_only => IsApproved(file[i])}

\* The first n members of a set of row numbers.
FirstOf(S, n) == {i \in S : Cardinality({j \in S : j < i}) < n}

\* The smaller of two numbers.
Min2(a, b) == IF a < b THEN a ELSE b

\* C11: a pass attempts exactly the first min(limit, k) of the k rows that
\* are unsent and, under approved-only, approved, in file order; the
\* attempted count it returns is that number, and the sent count it returns
\* is no larger.
C11_AttemptsFirstEligible ==
    [][PassStep =>
          LET k == Cardinality(Eligible(outbox, sendLog'.approved_only))
          IN  /\ sendLog'.tried
                    = FirstOf(Eligible(outbox, sendLog'.approved_only), sendLog'.limit)
              /\ sendLog'.kind = "ok" =>
                    /\ sendLog'.attempted = Min2(sendLog'.limit, k)
                    /\ sendLog'.sent <= sendLog'.attempted]_vars

\* The example of five rows, two approved and unsent: approved-only, limit
\* 10, dry run gives attempted 2 and sent 0.
C11_Witness ==
    /\ sendLog.passes = 1
    /\ Len(outbox) = 5
    /\ sendLog.approved_only /\ sendLog.dry_run /\ sendLog.limit = DefaultSendLimit
    /\ sendLog.tried = {2, 5}
    /\ sendLog.attempted = 2 /\ sendLog.sent = 0

C13_DryRunSendsNothing ==
    [][PassStep /\ sendLog'.dry_run =>
          /\ sendLog'.contacted = {}
          /\ mails' = mails
          /\ sendLog'.sent = 0
          /\ Len(outbox') = Len(outbox)
          /\ \A i \in 1..Len(outbox) : outbox'[i].sent_at = outbox[i].sent_at
          /\ \A i \in sendLog'.tried : outbox'[i].sent_at = <<>>]_vars

\* A dry run that attempted a row.
C13_Witness ==
    /\ sendLog.passes > 0
    /\ sendLog.dry_run
    /\ sendLog.tried # {}
    /\ \A i \in sendLog.tried : outbox[i].sent_at = <<>>

\* C14: in a pass that sends, a row whose delivery fails gets the error text
\* cut to 500 characters as last_error, keeps an empty sent_at and counts as
\* attempted but not as sent, and the rows after it are still tried; a row
\* whose delivery succeeds gets a sent_at and an empty last_error.
C14_DeliveryOutcomeOnRow ==
    [][PassStep /\ ~sendLog'.dry_run =>
          LET failed == {i \in sendLog'.tried : sendLog'.outcome[i] # "ok"}
          IN  /\ \A i \in failed :
                    /\ outbox'[i].last_error
                          = Prefix(SmtpError(sendLog'.outcome[i]), RowErrorMax)
                    /\ Len(outbox'[i].last_error) <= RowErrorMax
                    /\ outbox'[i].last_error # <<>>
                    /\ outbox'[i].sent_at = <<>>
              /\ \A i \in sendLog'.tried \ failed :
                    /\ outbox'[i].sent_at # <<>>
                    /\ outbox'[i].last_error = <<>>
              /\ sendLog'.attempted = Cardinality(sendLog'.tried)
              /\ sendLog'.sent = Cardinality(sendLog'.tried \ failed)
              /\ sendLog'.tried
                    = FirstOf(Eligible(outbox, sendLog'.approved_only),
                              sendLog'.limit)]_vars

\* A pass in which the relay refused a row with a long text and took a later
\* one.
C14_Witness ==
    /\ sendLog.passes > 0
    /\ ~sendLog.dry_run
    /\ \E i, j \in sendLog.tried :
          /\ i < j
          /\ sendLog.outcome[i] = "refused_long"
          /\ Len(outbox[i].last_error) = RowErrorMax
          /\ sendLog.outcome[j] = "ok"
          /\ outbox[j].sent_at # <<>>

\* C15: in a pass that sends with send_enabled off, or with the relay not
\* fully configured, every delivery attempted fails with the outreach error
\* of the check that refuses it (kept on the row), and no message is
\* delivered: the relay is not contacted and no row is marked sent.
C15_SendNeedsEnabledRelay ==
    [][PassStep /\ ~sendLog'.dry_run
         /\ (~smtpConf.send_enabled \/ ~smtpConf.configured) =>
          /\ sendLog'.contacted = {}
          /\ mails' = mails
          /\ sendLog'.sent = 0
          /\ \A i \in sendLog'.tried :
                /\ sendLog'.outcome[i]
                      = IF ~smtpConf.send_enabled THEN "disabled" ELSE "unconfigured"
                /\ outbox'[i].last_error
                      = IF ~smtpConf.send_enabled THEN Msg("Sending is disabled")
                        ELSE Msg("SMTP is not configured")
                /\ outbox'[i].sent_at = <<>>]_vars

\* A sending pass with send_enabled off that attempted a row.
C15_Witness ==
    /\ sendLog.passes > 0
    /\ ~sendLog.dry_run
    /\ ~smtpConf.send_enabled
    /\ \E i \in sendLog.tried : outbox[i].last_error = Msg("Sending is disabled")

\* C16 as stated: a pass rewrites the outbox with as many rows in the same
\* order, and every row it did not attempt has all its fields as before.
C16_UntouchedRowsUnchanged ==
    [][PassStep =>
          /\ sendLog'.kind = "ok"
          /\ Len(outbox') = Len(outbox)
          /\ \A i \in (1..Len(outbox)) \ sendLog'.tried : outbox'[i] = outbox[i]]_vars

\* C16 amended: a pass on an outbox with at least one row rewrites it with
\* as many rows in the same order; every field of a row it did not attempt
\* is the old field without the spaces around it, and a row it attempted
\* differs from that in sent_at and last_error only.  On an outbox without
\* rows the pass fails and the file stays as it is.
C16_UntouchedRowsStripped ==
    [][PassStep =>
          IF outbox = <<>>
          THEN sendLog'.kind = "err" /\ outbox' = outbox
          ELSE /\ sendLog'.kind = "ok"
               /\ Len(outbox') = Len(outbox)
               /\ \A i \in 1..Len(outbox) :
                     /\ DOMAIN outbox'[i] = DOMAIN outbox[i]
                     /\ \A k \in DOMAIN outbox[i] :
                           (i \notin sendLog'.tried \/ k \notin {"sent_at", "last_error"})
                               => outbox'[i][k] = Strip(outbox[i][k])]_vars

\* A pass that left a row with spaces around its approval flag untried.
C16_Witness ==
    /\ sendLog.passes = 1
    /\ sendLog.kind = "ok"
    /\ \E i \in (1..Len(outbox)) \ sendLog.tried :
          /\ outbox[i].approved = <<"Y", "e", "s">>
          /\ outbox[i].sent_at = <<>>

(***************************************************************************)
(* Properties of the outreach commands (SpecBot).                          *)
(***************************************************************************)
\* C17: the approve operation sets the approval flag to yes on exactly the
\* rows its selector chooses, leaves every other row and field unchanged,
\* rewrites the outbox and reports the number of rows approved.  Stated
\* for the selector --all, on the command `outreach approve o --all` run for
\* an allowed author: it ends normally, with a reply, and leaves every row
\* approved and otherwise as it was.
C17_ApproveAllApproves ==
    [][(/\ todo # <<>>
        /\ Lower(Head(todo).command) = Cmd.outreach
        /\ Tokens(Head(todo).args) = <<Sub.approve, OutboxName, Flag.all>>
        /\ seen'.handler = Cmd.outreach) =>
          /\ seen'.kind = "ok"
          /\ seen'.replies # <<>>
          /\ Len(outbox') = Len(outbox)
          /\ \A i \in 1..Len(outbox) :
                /\ IsApproved(outbox'[i])
                /\ \A k \in DOMAIN outbox[i] \ {"approved"} :
                      outbox'[i][k] = outbox[i][k]]_vars

(***************************************************************************)
(* Properties of generate_housing_leads (SpecLeads).                       *)
(***************************************************************************)
\* The normalized domains of the search results so far.
LogDomains == [i \in 1..Len(gen.log) |-> NormalizeDomain(gen.log[i])]

\* The places of doms at which a domain shows for the first time.
FirstSeen(doms) ==
    {i \in 1..Len(doms) :
        doms[i] # <<>> /\ \A j \in 1..(i - 1) : doms[j] # doms[i]}

\* The k-th place of firsts.
Kth(firsts, k) ==
    CHOOSE i \in firsts : Cardinality({j \in firsts : j <= i}) = k

\* C18: generate_housing_leads produces at most count leads, no two of them
\* with the same normalized domain, in the order in which the domains were
\* first seen across the query results; the leads file holds these leads.
C18_LeadsDistinctFirstSeenCapped ==
    \E doms \in {LogDomains} : \E firsts \in {FirstSeen(doms)} :
        /\ Len(gen.leads) <= gen.count
        /\ Len(gen.leads) = Min2(gen.count, Cardinality(firsts))
        /\ \A k \in 1..Len(gen.leads) :
               /\ gen.leads[k].source_url = gen.log[Kth(firsts, k)]
               /\ gen.leads[k].domain = doms[Kth(firsts, k)]
               /\ \A l \in 1..Len(gen.leads) :
                      gen.leads[k].domain = gen.leads[l].domain => k = l
        /\ gen.pc = "done" => gen.file = gen.leads

\* A call done that took leads from two queries, passed over a link to a
\* site it already had under another spelling, and stopped at the count
\* with results left over.
C18_Witness ==
    /\ gen.pc = "done"
    /\ Len(gen.file) = 2
    /\ gen.count = 2
    /\ gen.file[1].source_query # gen.file[2].source_query
    /\ \E firsts \in {FirstSeen(LogDomains)} :
           /\ \E i \in 1..(Kth(firsts, 2) - 1) : i \notin firsts
           /\ Kth(firsts, 2) < Len(gen.log)

\* C19: the queries are issued in their fixed order, none is issued once the
\* leads have reached the count, and when all eight were answered without a
\* lead the call fails with the not-found error and writes no leads file.
C19_QueriesInOrderUntilCount ==
    [][/\ Len(gen'.issued) <= Len(Queries)
       /\ \A i \in 1..Len(gen'.issued) : gen'.issued[i] = Queries[i]
       /\ gen'.issued # gen.issued =>
              /\ Len(gen.leads) < gen.count
              /\ gen'.issued = Append(gen.issued, Queries[Len(gen.issued) + 1])
       /\ (gen'.answered = Len(Queries) /\ gen'.leads = <<>>) =>
              /\ gen'.pc = "failed"
              /\ gen'.err = Msg("No leads found from search results.")
       /\ gen'.pc = "failed" => gen'.file = <<>>]_vars

\* A call done that issued two queries only, the second of which filled the
\* count.
C19_Witness ==
    /\ gen.pc = "done"
    /\ gen.issued = <<Queries[1], Queries[2]>>
    /\ Len(gen.leads) = gen.count
    /\ gen.file # <<>>

(***************************************************************************)
(* Properties of draft_housing_emails (SpecDraft).                         *)
(***************************************************************************)
HasEmail(lead) == Strip(lead.contact_email) # <<>>

\* C20: with a template file that has a conforming Template D section,
\* draft_housing_emails writes an outbox with one draft for each lead that has
\* a contact email, in the order of the leads, each not approved, not sent
\* and with every placeholder of subject and body replaced; it fails when no
\* lead has an email.
C20_DraftPerLeadWithEmail ==
    (/\ draft.pc # "idle"
     /\ draft.leads.readable
     /\ draft.template.exists
     /\ draft.template.text \in {ConformingTemplate, PlainTemplate}) =>
        LET with == SelectSeq(draft.leads.rows, HasEmail)
        IN  IF with = <<>> THEN draft.pc = "failed"
            ELSE /\ draft.pc = "done"
                 /\ Len(draft.outbox) = Len(with)
                 /\ \A k \in 1..Len(with) :
                        /\ draft.outbox[k].to_email = Strip(with[k].contact_email)
                        /\ draft.outbox[k].approved = <<"n", "o">>
                        /\ draft.outbox[k].sent_at = <<>>
                        /\ ~Contains(<<"{", "{">>, draft.outbox[k].subject)
                        /\ ~Contains(<<"{", "{">>, draft.outbox[k].body)

(***************************************************************************)
(* Properties of the workflow steps (SpecOps).                             *)
(***************************************************************************)
\* C21: a patch_task call makes at most two model requests, the second only
\* when the first answer yields no valid unified diff; when the second yields
\* none either the call fails with the invalid-diff error and the store is as
\* it was; an answer that yields a valid diff ends the call with that diff
\* stored as the patch and the status patched.
C21_PatchRetriesOnce ==
    [][\A p \in Procs : \A a \in ModelAnswers :
          (req[p].op = "patch_task" /\ ModelAnswer(p, a)) =>
              LET candidate == SanitizeDiffText(ExtractUnifiedDiff(a.lines))
                  valid == a.kind = "ok" /\ LooksLikeUnifiedDiff(candidate)
                  id == req[p].task_id
              IN  /\ pc[p] \in {"patch_llm1", "patch_llm2"}
                  /\ pc'[p] \in {"idle", "patch_llm2"}
                  /\ pc'[p] = "patch_llm2" <=>
                         (pc[p] = "patch_llm1" /\ a.kind = "ok" /\ ~valid)
                  /\ valid =>
                         /\ last'.kind = "ok"
                         /\ GetTaskUnlocked(store', id).patch = candidate
                         /\ GetTaskUnlocked(store', id).status = TASK_STATUS_PATCHED
                  /\ ~valid => store' = store
                  /\ (pc[p] = "patch_llm2" /\ a.kind = "ok" /\ ~valid) =>
                         /\ last'.kind = "err"
                         /\ last'.err =
                                Msg("Model output did not contain a valid unified diff.")]_vars

\* A patch_task call that failed for want of a diff, after both requests,
\* on a task that stays new.
C21_Witness ==
    /\ last.op = "patch_task"
    /\ last.kind = "err"
    /\ last.err = Msg("Model output did not contain a valid unified diff.")
    /\ TaskExists(store, last.task_id)
    /\ GetTaskUnlocked(store, last.task_id).status = TASK_STATUS_NEW
    /\ GetTaskUnlocked(store, last.task_id).patch = <<>>

\* The call r of p runs its body, with the commands ending as ext says.
BodyStep(p, r, ext) ==
    /\ \/ pc[p] = "idle" /\ LockFreeFor(p)
       \/ pc[p] = "waiting" /\ LockFreeFor(p) /\ req[p] = r
    /\ Settle(p, r, Body(r, store, repo, ext))

\* C22: apply_task sets the status applied only when the task has a patch,
\* the patch was applied on the task branch and, with a verification command
\* configured, that command exited with zero; a call that fails stores
\* nothing, and with an empty patch it fails with the no-patch error and the
\* repository as it was.
C22_AppliedOnlyWhenVerified ==
    [][\A p \in Procs : \A id \in NamedIds(store) :
       \A ext \in Outcomes("apply_task") :
          (/\ last'.op = "apply_task"
           /\ last'.task_id = id
           /\ BodyStep(p, Req("apply_task", id, <<>>, <<>>, <<>>), ext)) =>
              /\ store' # store => last'.kind = "ok"
              /\ last'.kind = "ok" =>
                     /\ GetTaskUnlocked(store', id).status = TASK_STATUS_APPLIED
                     /\ StripLines(GetTaskUnlocked(store, id).patch) # <<>>
                     /\ ext \notin {"fail_fetch", "fail_pull", "fail_apply"}
                     /\ cfg.verify => ext # "fail_verify"
                     /\ repo'.head = GetTaskUnlocked(store, id).branch
                     /\ id \in repo'.staged
              /\ (/\ TaskExists(store, id)
                  /\ StripLines(GetTaskUnlocked(store, id).patch) = <<>>) =>
                     /\ last'.kind = "err"
                     /\ last'.err = Msg("Task has no patch.")
                     /\ repo' = repo]_vars

\* An apply_task call that succeeded with a verification command configured.
C22_Witness ==
    /\ last.op = "apply_task"
    /\ last.kind = "ok"
    /\ cfg.verify
    /\ GetTaskUnlocked(store, last.task_id).status = TASK_STATUS_APPLIED
    /\ GetTaskUnlocked(store, last.task_id).patch # <<>>
    /\ last.task_id \in repo.staged

(***************************************************************************)
(* Properties of the workflow steps (SpecFlow).                            *)
(***************************************************************************)
\* C23: commit_task fails with the nothing-staged error when, on the task
\* branch with all changes staged, nothing is staged, and a failed call
\* leaves the stored task as it was; on success the hash of the new commit,
\* which holds what was staged, is stored in commit_sha and the status is
\* committed.
C23_CommitNeedsStagedChanges ==
    [][\A p \in Procs : \A id \in NamedIds(store) :
       \A ext \in Outcomes("commit_task") :
          (/\ last'.op = "commit_task"
           /\ last'.task_id = id
           /\ BodyStep(p, Req("commit_task", id, <<>>, <<>>, <<>>), ext)) =>
              /\ (/\ TaskExists(store, id)
                  /\ GetTaskUnlocked(store, id).branch \in DOMAIN repo.branches
                  /\ ext \notin {"fail_checkout", "fail_add"}
                  /\ repo.staged = {}) =>
                     /\ last'.kind = "err"
                     /\ last'.err = Msg("No staged changes to commit.")
              /\ last'.kind # "ok" => store' = store
              /\ last'.kind = "ok" =>
                     LET before == GetTaskUnlocked(store, id)
                         after == GetTaskUnlocked(store', id)
                     IN  /\ repo.staged # {}
                         /\ repo'.staged = {}
                         /\ repo'.branches[before.branch] =
                                repo.branches[before.branch] \cup repo.staged
                         /\ after.commit_sha =
                                CommitSha(before.branch, repo'.branches[before.branch])
                         /\ after.status = TASK_STATUS_COMMITTED]_vars

\* A commit_task call on a committed task that found nothing staged: status
\* and commit hash are those of the earlier commit.
C23_Witness ==
    /\ last.op = "commit_task"
    /\ last.kind = "err"
    /\ last.err = Msg("No staged changes to commit.")
    /\ GetTaskUnlocked(store, last.task_id).status = TASK_STATUS_COMMITTED
    /\ GetTaskUnlocked(store, last.task_id).commit_sha # <<>>

(***************************************************************************)
(* Properties of run, merge, deploy and ship (SpecShip).                   *)
(***************************************************************************)
\* on_message takes the next command of the message.
CommandStep == todo # <<>> /\ todo' # todo

\* The name of the command taken.
CommandName == Lower(Strip(Head(todo).command))

\* The stored tasks are as before the step, but for tasks marked failed.
OnlyMarkedFailed ==
    /\ store'.next_id = store.next_id
    /\ Len(store'.tasks) = Len(store.tasks)
    /\ \A i \in 1..Len(store.tasks) :
           \/ store'.tasks[i] = store.tasks[i]
           \/ store'.tasks[i] =
                  [store.tasks[i] EXCEPT !.status = TASK_STATUS_FAILED,
                                         !.last_error = store'.tasks[i].last_error]

\* C24: with uncommitted changes in the working tree, merge, deploy and ship
\* end with an error, and nothing of them has happened: no narration, no
\* change to the repository, no restart, no task made, no task taken a step
\* further.
C24_DirtyTreeRefused ==
    [][(/\ CommandStep
        /\ repo.staged # {}
        /\ CommandName \in {Cmd.merge, Cmd.deploy, Cmd.ship}) =>
           /\ seen'.kind = "err"
           /\ seen'.replies = <<"Command failed">>
           /\ repo' = repo
           /\ restarts' = restarts
           /\ OnlyMarkedFailed]_vars

\* A confirmed deploy refused for the changes an apply left in the tree.
C24_Witness ==
    /\ seen.handler = Cmd.deploy
    /\ seen.kind = "err"
    /\ seen.err = DirtyError
    /\ repo.staged # {}
    /\ restarts = 0

\* The reply that ends a command that raised.
FailureReply(kind) ==
    IF kind = "err" THEN <<"Command failed">>
    ELSE IF kind = "exc" THEN <<"Unhandled error">> ELSE <<>>

\* C25: run takes the task through plan, diff, apply, commit and publish in
\* this order, each narrated when it has succeeded; the first step that
\* fails ends the command, and nothing of the later steps has happened: the
\* task has the status of the last step that succeeded (or is marked failed),
\* and patch, staged changes, commit hash, compare link and pushed branches
\* are those of before wherever their step was not reached.
C25_RunStepsInOrder ==
    [][(/\ CommandStep
        /\ CommandName = Cmd.run
        /\ ParseTaskId(Strip(Head(todo).args)).ok) =>
           LET id == ParseTaskId(Strip(Head(todo).args)).task_id
               k == Len(seen'.replies) - 1 - Len(FailureReply(seen'.kind))
           IN  /\ k \in 0..Len(RunSteps)
               /\ seen'.replies = <<"Running">> \o SubSeq(RunSteps, 1, k)
                                      \o FailureReply(seen'.kind)
               /\ seen'.kind = "ok" <=> k = Len(RunSteps)
               /\ k = 0 => OnlyMarkedFailed
               /\ TaskExists(store, id) =>
                      LET before == GetTaskUnlocked(store, id)
                          after == GetTaskUnlocked(store', id)
                      IN  /\ k >= 1 =>
                                after.status \in {StepStatus(RunSteps[k]),
                                                  TASK_STATUS_FAILED}
                          /\ after.status = TASK_STATUS_FAILED =>
                                TaskRef(Head(todo).command \o <<" ">> \o Head(todo).args).found
                          /\ k < 2 => after.patch = before.patch
                          /\ k < 3 => repo'.staged = repo.staged
                          /\ k < 4 => /\ after.commit_sha = before.commit_sha
                                      /\ repo'.branches[BaseBranch] = repo.branches[BaseBranch]
                          /\ k < 5 => /\ after.compare_url = before.compare_url
                                      /\ repo'.pushed = repo.pushed]_vars

\* A run that planned and patched the task and then failed to apply the
\* patch: the task is patched, and nothing is committed or pushed.
C25_Witness ==
    /\ seen.handler = Cmd.run
    /\ seen.kind = "err"
    /\ seen.replies = <<"Running", "plan_task", "patch_task", "Command failed">>
    /\ GetTaskUnlocked(store, 1).status = TASK_STATUS_PATCHED
    /\ GetTaskUnlocked(store, 1).commit_sha = <<>>
    /\ repo.pushed = {}

\* The ship command taken is confirmed and finds the working tree clean.
ShipGoesAhead ==
    /\ CommandStep
    /\ CommandName = Cmd.ship
    /\ StripConfirmFlag(Head(todo).args, ShipWord).ok
    /\ repo.staged = {}

\* C26: a confirmed ship on a clean working tree whose plan, diff, apply,
\* commit and publish steps have succeeded goes on to merge and deploy: it
\* narrates the seven steps, ends without an error and has triggered the
\* restart.
C26_ShipRunsSevenSteps ==
    [][(/\ ShipGoesAhead
        /\ \E i \in 1..Len(seen'.replies) : seen'.replies[i] = "publish_task") =>
           /\ seen'.kind = "ok"
           /\ restarts' = restarts + 1
           /\ Len(SelectSeq(seen'.replies,
                            LAMBDA x : x \notin {"Created", "Shipping"})) = 7]_vars

\* The first word of what ship is given, the confirmation taken out.
ShipTarget == Tokens(Strip(StripConfirmFlag(Head(todo).args, ShipWord).kept))[1]

\* C27: a confirmed ship whose target is the id of an existing task, with or
\* without a hash sign, creates no task.
C27_ShipIdCreatesNoTask ==
    [][(/\ ShipGoesAhead
        /\ Strip(StripConfirmFlag(Head(todo).args, ShipWord).kept) # <<>>
        /\ ParseTaskId(ShipTarget).ok
        /\ TaskExists(store, ParseTaskId(ShipTarget).task_id)) =>
           /\ store'.next_id = store.next_id
           /\ Len(store'.tasks) = Len(store.tasks)]_vars

(***************************************************************************)
(* Properties of the loop of on_message (SpecShip).                        *)
(***************************************************************************)
\* The commands still to be dispatched are the last ones of the message.
IsTailOf(rest, commands) ==
    /\ Len(rest) <= Len(commands)
    /\ rest = SubSeq(commands, Len(commands) - Len(rest) + 1, Len(commands))

\* A message has been taken in an admin channel from a user.
Received == msgs' # msgs /\ seen'.kind = "received"

\* C28 as stated: the commands of the prefixed lines of a message are
\* dispatched in line order, one after the other, and after every command,
\* failed or not, the following ones are still to be dispatched.
C28_AllCommandsDispatched ==
    [][/\ Received => todo' = ParseLines(msg'.lines)
       /\ CommandStep =>
             /\ seen'.command = Head(todo).command
             /\ todo' = Tail(todo)]_vars

\* C28, amended: the commands of the prefixed lines of a message are
\* dispatched in line order, one after the other; after a command that
\* failed, with a domain error or with another exception, the following
\* ones are still to be dispatched, and only a command that triggered the
\* restart of the process may be the last one dispatched.
C28_CommandsDispatchedUntilRestart ==
    [][/\ Received => todo' = ParseLines(msg'.lines)
       /\ IsTailOf(todo, ParseLines(msg.lines))
       /\ CommandStep =>
             /\ seen'.command = Head(todo).command
             /\ todo' \in {Tail(todo), <<>>}
             /\ (seen'.kind \in {"err", "exc"} \/ restarts' = restarts) =>
                   todo' = Tail(todo)]_vars

\* The third command of a message is dispatched after the first one failed
\* with an exception and the second one with a domain error.
C28_Witness ==
    /\ Len(msg.lines) = 3
    /\ ParseLines(msg.lines)[1].command = Cmd.merge
    /\ ParseLines(msg.lines)[2].command = Cmd.show
    /\ seen.command = <<"p", "i", "n", "g">>
    /\ seen.kind = "ok"
    /\ todo = <<>>

\* The task of the list at place i is marked failed by the step.
NewlyFailed(i) ==
    /\ store'.tasks[i].status = TASK_STATUS_FAILED
    /\ i <= Len(store.tasks) => store.tasks[i] # store'.tasks[i]

\* C29: a command that ended with a domain error is answered last with
\* Command failed and the message; if the text of the command and its
\* arguments holds a hash sign followed by digits and a task of that number
\* is stored, that task is failed with the message as its last error; if
\* there is no such task nothing is recorded and the answer is sent all the
\* same; no other task is marked.
C29_DomainErrorRecordedAndReported ==
    [][(CommandStep /\ seen'.kind = "err") =>
          \E ref \in {TaskRef(Head(todo).command \o <<" ">> \o Head(todo).args)} :
             /\ seen'.replies # <<>>
             /\ seen'.replies[Len(seen'.replies)] = "Command failed"
             /\ seen'.err # <<>>
             /\ (ref.found /\ TaskExists(store', ref.task_id)) =>
                   /\ GetTaskUnlocked(store', ref.task_id).status = TASK_STATUS_FAILED
                   /\ GetTaskUnlocked(store', ref.task_id).last_error =
                          Prefix(seen'.err, ErrorMax)
             /\ \A i \in 1..Len(store'.tasks) :
                   NewlyFailed(i) =>
                      ref.found /\ store'.tasks[i].task_id = ref.task_id]_vars

\* run #1 has failed on the stored task 1: the task is failed with the
\* message of the error, and the error is reported.
C29_Witness ==
    /\ seen.kind = "err"
    /\ Lower(seen.command) = Cmd.run
    /\ TaskRef(msg.lines[Len(msg.lines)]).found
    /\ seen.replies[Len(seen.replies)] = "Command failed"
    /\ TaskExists(store, 1)
    /\ GetTaskUnlocked(store, 1).status = TASK_STATUS_FAILED
    /\ GetTaskUnlocked(store, 1).last_error = seen.err

(***************************************************************************)
(* Properties of _send_chunks (SpecChunks).                                *)
(***************************************************************************)
\* The messages of a channel, one after the other, as one text.
RECURSIVE Flat(_)
Flat(parts) == IF parts = <<>> THEN <<>> ELSE Head(parts) \o Flat(Tail(parts))

\* C30: the messages _send_chunks sends for a body of n characters, the
\* whitespace around it stripped, are each of at most 1800 characters and
\* are, one after the other, the stripped body from its start on; when all
\* are sent there are ceil(n/1800) of them and together they are the
\* stripped body.  A blank body is sent as the one message (empty).
C30_ChunksOfStrippedBody ==
    chan.pc # "idle" =>
        \E data \in {Strip(chan.text)} : \E got \in {Flat(chan.sent)} :
            /\ \A k \in 1..Len(chan.sent) :
                   Len(chan.sent[k]) \in 1..ChunkSize
            /\ IF data = <<>>
               THEN /\ chan.sent \in {<<>>, <<EmptyReply>>}
                    /\ chan.pc = "done" => chan.sent = <<EmptyReply>>
               ELSE /\ got = Prefix(data, Len(got))
                    /\ chan.pc = "done" =>
                          /\ Len(chan.sent) = (Len(data) + ChunkSize - 1) \div ChunkSize
                          /\ got = data

\* A body of 5000 characters, given with whitespace around it, has been
\* sent in three messages.
C30_Witness ==
    /\ chan.pc = "done"
    /\ Len(chan.text) > 5000
    /\ Len(Strip(chan.text)) = 5000
    /\ Len(chan.sent) = 3

(***************************************************************************)
(* Properties of the weekly announcement (SpecWeekly).                     *)
(***************************************************************************)
\* C31: however many ready events there were, the scheduler was started at
\* most once, at most one job is registered and its identifier is
\* weekly_events, and a weekly firing posts at most one announcement.
C31_OneWeeklyJob ==
    [][/\ sched'.starts <= 1
       /\ Len(sched'.jobs) <= 1
       /\ \A i \in 1..Len(sched'.jobs) : sched'.jobs[i] = WeeklyJob
       /\ sched'.running <=> sched'.starts = 1
       /\ sched'.weeks # sched.weeks => sched'.posts - sched.posts \in {0, 1}]_vars

\* After several ready events the scheduler has fired and every firing but
\* those that found no channel has posted one announcement.
C31_Witness ==
    /\ sched.readies >= 2
    /\ sched.starts = 1
    /\ sched.jobs = <<WeeklyJob>>
    /\ sched.weeks >= 2
    /\ sched.posts = sched.weeks

(***************************************************************************)
(* Properties of the task store (SpecOps, SpecFlow).                       *)
(***************************************************************************)
\* C32: the ids of the stored tasks are pairwise distinct, and next_id is
\* greater than every one of them.
C32_IdsDistinctBelowNextId ==
    /\ \A i, j \in 1..Len(store.tasks) :
           store.tasks[i].task_id = store.tasks[j].task_id => i = j
    /\ \A i \in 1..Len(store.tasks) : store.tasks[i].task_id < store.next_id

\* Two tasks stored, one of them taken a step further, with a failed
\* creation among the calls.
C32_Witness ==
    /\ Len(store.tasks) = 2
    /\ createFailed
    /\ store.next_id > 3

\* C33: a create_task call that fails leaves the task store as it was,
\* next_id included.
C33_FailedCreateKeepsStore ==
    [][\A p \in Procs : \A r \in ApiRequests(store) : \A ext \in Outcomes("create_task") :
          (/\ r.op = "create_task"
           /\ last'.op = "create_task"
           /\ last'.kind # "ok"
           /\ BodyStep(p, r, ext)) => store' = store]_vars

\* C34: a plan_task, patch_task, apply_task, commit_task or publish_task
\* call that ends with an error leaves every stored task as it was before
\* the call: nothing is stored when it ends, and nothing is stored while it
\* is suspended on a model request.
C34_FailedStepKeepsStore ==
    [][/\ (last' # last /\ last'.op \in WorkflowOps /\ last'.kind # "ok") =>
             store' = store
       /\ (\E p \in Procs : pc'[p] \in AwaitingModel) => store' = store]_vars

\* publish_task has failed on a planned task: the task is still planned and
\* has no compare URL.
C34_Witness ==
    /\ last.op = "publish_task"
    /\ last.kind = "err"
    /\ TaskExists(store, last.task_id)
    /\ GetTaskUnlocked(store, last.task_id).status = TASK_STATUS_PLANNED
    /\ GetTaskUnlocked(store, last.task_id).compare_url = <<>>
    /\ GetTaskUnlocked(store, last.task_id).last_error = <<>>

(***************************************************************************)
(* Properties of the store lock under scheduling (SpecLive).               *)
(***************************************************************************)
\* C35: the lock is held only by an operation suspended on a model request,
\* so it is free whenever an operation has ended, by return or by error; and
\* every operation that waits for the lock or for the model comes to its
\* end.
C35_LockReleasedWaitersServed ==
    /\ [](lockHolder # None => pc[lockHolder] \in AwaitingModel)
    /\ \A p \in Procs : (pc[p] = "waiting") ~> (pc[p] = "idle")
    /\ \A p \in Procs : (pc[p] \in AwaitingModel) ~> (pc[p] = "idle")

\* An operation that had waited for the lock has run and failed, and the
\* lock is free again with nobody waiting.
C35_Witness ==
    /\ last.queued
    /\ last.kind \in {"err", "exc"}
    /\ lockHolder = None
    /\ waiters = <<>>
    /\ \A p \in Procs : pc[p] = "idle"

(***************************************************************************)
(* Properties of the dispatcher on a store in use (SpecAuth).              *)
(***************************************************************************)
\* C36: with allowed users configured, a command of an author who is not
\* one of them leaves the task store as it was, whatever the command.
C36_OutsiderKeepsStore ==
    [][(/\ CommandStep
        /\ auth.allowed_user_ids # {}
        /\ msg.author \notin auth.allowed_user_ids) => store' = store]_vars

\* The id a command names as its first argument.
CommandTaskId == ParseTaskId(Tokens(Head(todo).args)[1])

\* C37: a command that fails marks as failed no task but the one its
\* task-id argument names.
C37_OnlyOwnTaskMarked ==
    [][(/\ CommandStep
        /\ seen'.kind \in {"err", "exc"}) =>
           \A i \in 1..Len(store'.tasks) :
              NewlyFailed(i) =>
                 /\ Tokens(Head(todo).args) # <<>>
                 /\ CommandTaskId.ok
                 /\ store'.tasks[i].task_id = CommandTaskId.task_id]_vars

(***************************************************************************)
(* Properties of the stored tasks (SpecOps, SpecFlow).                     *)
(***************************************************************************)
\* C38: a stored task with a last_error has status failed: a plan, patch,
\* apply, commit or publish that succeeds leaves its task without
\* last_error, and a last_error comes into the store or changes only by
\* fail_task.
C38_LastErrorMeansFailed ==
    [][/\ \A i \in 1..Len(store'.tasks) :
             store'.tasks[i].last_error # <<>> =>
                store'.tasks[i].status = TASK_STATUS_FAILED
       /\ (last' # last /\ last'.op \in WorkflowOps /\ last'.kind = "ok") =>
             GetTaskUnlocked(store', last'.task_id).last_error = <<>>
       /\ \A i \in 1..Len(store'.tasks) :
             (/\ store'.tasks[i].last_error # <<>>
              /\ i <= Len(store.tasks) => store'.tasks[i].last_error # store.tasks[i].last_error) =>
                /\ last' # last
                /\ last'.op = "fail_task"
                /\ last'.task_id = store'.tasks[i].task_id]_vars

\* fail_task has marked a task that had taken a step before: the task is
\* failed and holds the error.
C38_Witness ==
    /\ last.op = "fail_task"
    /\ last.kind = "ok"
    /\ GetTaskUnlocked(store, last.task_id).status = TASK_STATUS_FAILED
    /\ GetTaskUnlocked(store, last.task_id).last_error # <<>>
    /\ GetTaskUnlocked(store, last.task_id).plan # ""

\* The stored tasks of this status.
TasksIn(statuses) == {i \in 1..Len(store.tasks) : store.tasks[i].status \in statuses}

\* C39 as stated: a published task has a compare URL and a commit hash, and
\* a patched or applied task has a patch.
C39_PublishedAfterCommit ==
    /\ \A i \in TasksIn({TASK_STATUS_PUBLISHED}) :
           /\ store.tasks[i].compare_url # <<>>
           /\ store.tasks[i].commit_sha # <<>>
    /\ \A i \in TasksIn({TASK_STATUS_PATCHED, TASK_STATUS_APPLIED}) :
           StripLines(store.tasks[i].patch) # <<>>

\* C39, amended: a published task has a compare URL and its branch is
\* pushed, a committed task has a commit hash, and a patched or applied
\* task has a patch; a published task need not have a commit hash.
C39_PublishedHasUrl ==
    /\ \A i \in TasksIn({TASK_STATUS_PUBLISHED}) :
           /\ store.tasks[i].compare_url = CompareUrl(store.tasks[i].branch)
           /\ store.tasks[i].branch \in repo.pushed
    /\ \A i \in TasksIn({TASK_STATUS_COMMITTED}) :
           store.tasks[i].commit_sha # <<>>
    /\ \A i \in TasksIn({TASK_STATUS_PATCHED, TASK_STATUS_APPLIED}) :
           StripLines(store.tasks[i].patch) # <<>>

\* A task published straight after apply_task: it has a compare URL and no
\* commit hash.
C39_Witness ==
    /\ last.op = "publish_task"
    /\ last.kind = "ok"
    /\ GetTaskUnlocked(store, last.task_id).status = TASK_STATUS_PUBLISHED
    /\ GetTaskUnlocked(store, last.task_id).compare_url # <<>>
    /\ GetTaskUnlocked(store, last.task_id).commit_sha = <<>>

(***************************************************************************)
(* Properties of interleaved steps on two tasks (SpecRace).                *)
(***************************************************************************)
\* C40: the commit that commit_task records for a task holds the changes of
\* the patch of that task and of no other.
C40_CommitHoldsOwnPatchOnly ==
    [][(last' # last /\ last'.op = "commit_task" /\ last'.kind = "ok") =>
          \E task \in {GetTaskUnlocked(store', last'.task_id)} :
             /\ task.commit_sha = CommitSha(task.branch, repo'.branches[task.branch])
             /\ repo'.branches[task.branch] \subseteq {task.task_id}]_vars
====
